---- MODULE Spec2Model ----
(***************************************************************************)
(* Flood-induced population displacement tooling: the statistics           *)
(* aggregator (script/calc_statistics.py) and the configuration-file       *)
(* generator (src/create_config_files.py), modelled as state machines over *)
(* an abstract file system.                                                *)
(*                                                                         *)
(* Numbers are IEEE-754 binary64 values, as pandas/NumPy/Python compute    *)
(* them: every arithmetic step is the exactly rounded (nearest, ties to    *)
(* even) result.  A mantissa does not fit TLC's 32-bit integers, so it is  *)
(* held as a little-endian sequence of 15-bit limbs.  Exponent overflow    *)
(* and subnormals are not modelled: the inputs stay far from both.         *)
(***************************************************************************)
EXTENDS Integers, Sequences, FiniteSets, TLC

\* ------------------------------------------------------------------------
\* Natural numbers of any size: little-endian limbs, no leading zero limb.
\* ------------------------------------------------------------------------
Base == 2^15

RECURSIVE IntBitLen(_)
IntBitLen(n) == IF n = 0 THEN 0 ELSE 1 + IntBitLen(n \div 2)

LimbBits == IntBitLen(Base - 1)

Limb(a, i) == IF i <= Len(a) THEN a[i] ELSE 0

RECURSIVE BNorm(_)
BNorm(a) ==
  IF a = <<>> THEN a
  ELSE IF a[Len(a)] = 0 THEN BNorm(SubSeq(a, 1, Len(a) - 1)) ELSE a

RECURSIVE BFromInt(_)
BFromInt(n) == IF n = 0 THEN <<>> ELSE <<n % Base>> \o BFromInt(n \div Base)

RECURSIVE BToIntAt(_, _)
BToIntAt(a, i) == IF i > Len(a) THEN 0 ELSE a[i] + Base * BToIntAt(a, i + 1)

BToInt(a) == BToIntAt(a, 1)

RECURSIVE BAddC(_, _, _, _)
BAddC(a, b, i, c) ==
  IF i > Len(a) /\ i > Len(b)
  THEN (IF c = 0 THEN <<>> ELSE <<c>>)
  ELSE LET x == Limb(a, i) + Limb(b, i) + c
       IN  <<x % Base>> \o BAddC(a, b, i + 1, x \div Base)

BAdd(a, b) == BAddC(a, b, 1, 0)

RECURSIVE BSubC(_, _, _, _)
BSubC(a, b, i, c) ==
  IF i > Len(a) THEN <<>>
  ELSE LET x == Limb(a, i) - Limb(b, i) - c
       IN  IF x < 0 THEN <<x + Base>> \o BSubC(a, b, i + 1, 1)
                    ELSE <<x>> \o BSubC(a, b, i + 1, 0)

\* a - b for a >= b
BSub(a, b) == BNorm(BSubC(a, b, 1, 0))

RECURSIVE BCmpAt(_, _, _)
BCmpAt(a, b, i) ==
  IF i = 0 THEN 0
  ELSE IF a[i] < b[i] THEN -1
  ELSE IF a[i] > b[i] THEN 1
  ELSE BCmpAt(a, b, i - 1)

\* -1, 0, 1 as a < b, a = b, a > b
BCmp(a, b) ==
  IF Len(a) < Len(b) THEN -1
  ELSE IF Len(a) > Len(b) THEN 1
  ELSE BCmpAt(a, b, Len(a))

RECURSIVE BMulSmallC(_, _, _, _)
BMulSmallC(a, k, i, c) ==
  IF i > Len(a)
  THEN (IF c = 0 THEN <<>> ELSE <<c>>)
  ELSE LET x == a[i] * k + c
       IN  <<x % Base>> \o BMulSmallC(a, k, i + 1, x \div Base)

\* a * k for 0 <= k < Base
BMulSmall(a, k) == IF k = 0 THEN <<>> ELSE BMulSmallC(a, k, 1, 0)

BShlLimbs(a, n) == IF a = <<>> THEN a ELSE [i \in 1..n |-> 0] \o a

BShrLimbs(a, n) == IF n >= Len(a) THEN <<>> ELSE SubSeq(a, n + 1, Len(a))

RECURSIVE BMulAt(_, _, _)
BMulAt(a, b, j) ==
  IF j > Len(b) THEN <<>>
  ELSE BAdd(BShlLimbs(BMulSmall(a, b[j]), j - 1), BMulAt(a, b, j + 1))

BMul(a, b) == BMulAt(a, b, 1)

RECURSIVE BDivSmallAt(_, _, _, _)
BDivSmallAt(a, k, i, r) ==
  IF i = 0 THEN <<<<>>, r>>
  ELSE LET cur  == r * Base + a[i]
           rest == BDivSmallAt(a, k, i - 1, cur % k)
       IN  <<rest[1] \o <<cur \div k>>, rest[2]>>

\* <<a div k, a mod k>> for 0 < k < Base
BDivSmall(a, k) ==
  LET qr == BDivSmallAt(a, k, Len(a), 0) IN <<BNorm(qr[1]), qr[2]>>

BShl(a, n) == BShlLimbs(BMulSmall(a, 2^(n % LimbBits)), n \div LimbBits)

BShr(a, n) == BDivSmall(BShrLimbs(a, n \div LimbBits), 2^(n % LimbBits))[1]

BBitLen(a) ==
  IF a = <<>> THEN 0 ELSE LimbBits * (Len(a) - 1) + IntBitLen(a[Len(a)])

\* bit n of a, bit 0 the lowest
BBit(a, n) == (Limb(a, n \div LimbBits + 1) \div 2^(n % LimbBits)) % 2

\* a mod 2^n # 0
BLowNonzero(a, n) ==
  \/ \E i \in 1..Len(a) : i <= n \div LimbBits /\ a[i] # 0
  \/ Limb(a, n \div LimbBits + 1) % 2^(n % LimbBits) # 0

BOdd(a) == Limb(a, 1) % 2 = 1

RECURSIVE IntIsqrtIn(_, _, _)
IntIsqrtIn(n, lo, hi) ==
  IF lo = hi THEN lo
  ELSE LET mid == (lo + hi + 1) \div 2
       IN  IF mid * mid <= n THEN IntIsqrtIn(n, mid, hi)
                             ELSE IntIsqrtIn(n, lo, mid - 1)

\* floor(sqrt(n)) for 0 <= n < Base^2
IntIsqrt(n) == IntIsqrtIn(n, 0, Base - 1)

\* the largest digit d <= dmax with (D + d) * d <= R
RECURSIVE BSqrtDigit(_, _, _)
BSqrtDigit(D, R, d) ==
  IF d = 0 \/ BCmp(BMulSmall(BAdd(D, <<d>>), d), R) <= 0 THEN d
  ELSE BSqrtDigit(D, R, d - 1)

\* The square root one base-Base digit at a time: r is the root of the limb
\* pairs above pair j, R what is left of them, R <= 2r.  The next digit is
\* at most (R + 1) * Base / 2r, estimated from the leading limbs.
RECURSIVE BIsqrtAt(_, _, _, _)
BIsqrtAt(n, j, r, R) ==
  IF j = 0 THEN <<r, R>>
  ELSE LET Rn   == BAdd(BShlLimbs(R, 2), BNorm(<<n[2 * j - 1], n[2 * j]>>))
           D    == BShlLimbs(BMulSmall(r, 2), 1)
           Rtop == BToInt(BShrLimbs(R, Len(r) - 1))
           est  == ((Rtop + 1) * (Base \div 2)) \div r[Len(r)]
           d    == BSqrtDigit(D, Rn, IF est > Base - 1 THEN Base - 1 ELSE est)
       IN  BIsqrtAt(n, j - 1, <<d>> \o r,
                    BSub(Rn, BMulSmall(BAdd(D, BFromInt(d)), d)))

\* <<floor(sqrt(n)), n - floor(sqrt(n))^2>> for n of an even number of limbs
\* whose leading limb is at least Base / 4
BIsqrt(n) ==
  LET L  == Len(n) \div 2
      t  == n[2 * L] * Base + n[2 * L - 1]
      r1 == IntIsqrt(t)
  IN  BIsqrtAt(n, L - 1, <<r1>>, BFromInt(t - r1 * r1))

\* ------------------------------------------------------------------------
\* binary64 values: (-1)^s * m * 2^e with m of exactly Prec bits, or zero,
\* infinity, NaN.  t is the text of a non-numeric cell (k = "str").
\* ------------------------------------------------------------------------
Prec == 53

Num(s, m, e) == [k |-> "num", s |-> s, m |-> m, e |-> e, t |-> ""]

FZero == Num(0, <<>>, 0)

FNaN == [k |-> "nan", s |-> 0, m |-> <<>>, e |-> 0, t |-> ""]

FInf(s) == [k |-> "inf", s |-> s, m |-> <<>>, e |-> 0, t |-> ""]

Str(t) == [k |-> "str", s |-> 0, m |-> <<>>, e |-> 0, t |-> t]

IsNaN(x) == x.k = "nan"

IsZero(x) == x.k = "num" /\ x.m = <<>>

\* The binary64 nearest to (-1)^s * (M + f) * 2^E, ties to even, where
\* 0 <= f < 1 and sticky says f > 0 (then M has at least Prec + 2 bits).
FRound(s, M, E, sticky) ==
  LET L == BBitLen(M) IN
  IF M = <<>> THEN FZero
  ELSE IF L <= Prec THEN Num(s, BShl(M, Prec - L), E - (Prec - L))
  ELSE LET sh   == L - Prec
           q    == BShr(M, sh)
           half == BBit(M, sh - 1) = 1
           rest == sticky \/ BLowNonzero(M, sh - 1)
           q2   == IF half /\ (rest \/ BOdd(q)) THEN BAdd(q, <<1>>) ELSE q
       IN  IF BBitLen(q2) > Prec THEN Num(s, BShr(q2, 1), E + sh + 1)
                                 ELSE Num(s, q2, E + sh)

FFromInt(n) ==
  IF n < 0 THEN FRound(1, BFromInt(-n), 0, FALSE)
           ELSE FRound(0, BFromInt(n), 0, FALSE)

FNeg(x) == IF x.k = "nan" \/ IsZero(x) THEN x ELSE [x EXCEPT !.s = 1 - x.s]

\* x + y
FAdd(x, y) ==
  IF x.k = "nan" \/ y.k = "nan" THEN FNaN
  ELSE IF x.k = "inf" /\ y.k = "inf" THEN (IF x.s = y.s THEN x ELSE FNaN)
  ELSE IF x.k = "inf" THEN x
  ELSE IF y.k = "inf" THEN y
  ELSE IF IsZero(x) THEN y
  ELSE IF IsZero(y) THEN x
  ELSE LET E  == IF x.e < y.e THEN x.e ELSE y.e
           Mx == BShl(x.m, x.e - E)
           My == BShl(y.m, y.e - E)
           c  == BCmp(Mx, My)
       IN  IF x.s = y.s THEN FRound(x.s, BAdd(Mx, My), E, FALSE)
           ELSE IF c = 0 THEN FZero
           ELSE IF c > 0 THEN FRound(x.s, BSub(Mx, My), E, FALSE)
           ELSE FRound(y.s, BSub(My, Mx), E, FALSE)

FSub(x, y) == FAdd(x, FNeg(y))

\* x * y
FMul(x, y) ==
  IF x.k = "nan" \/ y.k = "nan" THEN FNaN
  ELSE IF x.k = "inf" \/ y.k = "inf"
       THEN (IF IsZero(x) \/ IsZero(y) THEN FNaN ELSE FInf((x.s + y.s) % 2))
  ELSE IF IsZero(x) \/ IsZero(y) THEN FZero
  ELSE FRound((x.s + y.s) % 2, BMul(x.m, y.m), x.e + y.e, FALSE)

\* x / n for an integer n, |n| < Base (n is exact as a binary64)
FDivInt(x, n) ==
  LET sn == IF n < 0 THEN 1 ELSE 0
      an == IF n < 0 THEN -n ELSE n
  IN  IF x.k = "nan" THEN FNaN
      ELSE IF x.k = "inf" THEN FInf((x.s + sn) % 2)
      ELSE IF n = 0 THEN (IF IsZero(x) THEN FNaN ELSE FInf(x.s))
      ELSE IF IsZero(x) THEN FZero
      ELSE LET qr == BDivSmall(BShlLimbs(x.m, 2), an)
           IN  FRound((x.s + sn) % 2, qr[1], x.e - 2 * LimbBits, qr[2] # 0)

\* sqrt(x): the radicand m * 2^sh has 8 limbs, 119 or 120 bits, and e - sh
\* is even
FSqrt(x) ==
  IF x.k = "nan" THEN FNaN
  ELSE IF IsZero(x) THEN FZero
  ELSE IF x.s = 1 THEN FNaN
  ELSE IF x.k = "inf" THEN x
  ELSE LET w  == 8 * LimbBits - Prec
           sh == IF (x.e - w) % 2 = 0 THEN w ELSE w - 1
           rr == BIsqrt(BShl(x.m, sh))
       IN  FRound(0, rr[1], (x.e - sh) \div 2, rr[2] # <<>>)

\* x < y (false when either is NaN)
FLess(x, y) ==
  IF x.k = "nan" \/ y.k = "nan" THEN FALSE
  ELSE FSub(x, y).k # "nan" /\ ~IsZero(FSub(x, y)) /\ FSub(x, y).s = 1

\* x rounded to the nearest integer, ties to even (numpy.rint)
FRint(x) ==
  IF x.k # "num" \/ IsZero(x) \/ x.e >= 0 THEN x
  ELSE LET sh   == -x.e
           q    == BShr(x.m, sh)
           half == BBit(x.m, sh - 1) = 1
           rest == BLowNonzero(x.m, sh - 1)
           q2   == IF half /\ (rest \/ BOdd(q)) THEN BAdd(q, <<1>>) ELSE q
       IN  FRound(x.s, q2, 0, FALSE)

\* int(x): x truncated toward zero, for |x| < 2^31
FTrunc(x) ==
  IF IsZero(x) THEN 0
  ELSE LET a == IF x.e >= 0 THEN BShl(x.m, x.e) ELSE BShr(x.m, -x.e)
       IN  IF x.s = 1 THEN -BToInt(a) ELSE BToInt(a)

\* the binary64 read from the decimal text n / 10^d (n < 2^31, d <= 4)
FDec(n, d) == FDivInt(FFromInt(n), 10^d)

\* numpy.round(x, decimals) for decimals >= 0: multiply by 10^decimals, rint,
\* divide by 10^decimals
NpRound(x, decimals) ==
  IF decimals = 0 THEN FRint(x)
  ELSE FDivInt(FRint(FMul(x, FFromInt(10^decimals))), 10^decimals)

ClipNothing(x) == x

\* clip(lower=0): NaN stays NaN
ClipLower0(x) == IF FLess(x, FZero) THEN FZero ELSE x

\* ------------------------------------------------------------------------
\* Tables: cols the column names in order, nrows the number of rows,
\* cell[j][r] the cell of column j at row r.  A file holds a table or is
\* absent.
\* ------------------------------------------------------------------------
Frame(cols, nrows, cell) ==
  [exists |-> TRUE, cols |-> cols, nrows |-> nrows, cell |-> cell]

NoFile == [exists |-> FALSE, cols |-> <<>>, nrows |-> 0, cell |-> <<>>]

HasCol(df, name) == \E j \in 1..Len(df.cols) : df.cols[j] = name

ColIndex(df, name) == CHOOSE j \in 1..Len(df.cols) : df.cols[j] = name

\* read_csv's dtype of column j: numeric unless a cell holds text
IsNumericCol(df, j) ==
  df.nrows > 0 /\ \A r \in 1..df.nrows : df.cell[j][r].k # "str"

RECURSIVE ColsWhere(_, _, _)
ColsWhere(df, wantNumeric, j) ==
  IF j > Len(df.cols) THEN <<>>
  ELSE (IF IsNumericCol(df, j) = wantNumeric THEN <<df.cols[j]>> ELSE <<>>)
       \o ColsWhere(df, wantNumeric, j + 1)

\* df.select_dtypes(include="number").columns / (exclude="number").columns
SelectDtypes(df, wantNumeric) == ColsWhere(df, wantNumeric, 1)

\* df[names]
SelectCols(df, names) ==
  Frame(names, df.nrows,
        [j \in 1..Len(names) |-> df.cell[ColIndex(df, names[j])]])

Square(x) == FMul(x, x)

\* df.pow(2)
SquareCells(df) ==
  [df EXCEPT !.cell = [j \in 1..Len(df.cols) |->
                         [r \in 1..df.nrows |-> Square(df.cell[j][r])]]]

\* acc += other: aligned on the row index and reindexed like acc, so a row
\* that other lacks turns NaN and a row only other has is dropped
AlignedReversed(other, j, r) ==
  IF r <= other.nrows THEN other.cell[j][other.nrows + 1 - r] ELSE FNaN

AlignedAt(other, j, r) == IF r <= other.nrows THEN other.cell[j][r] ELSE FNaN

IAdd(acc, other) ==
  [acc EXCEPT !.cell = [j \in 1..Len(acc.cols) |->
                          [r \in 1..acc.nrows |->
                             FAdd(acc.cell[j][r], AlignedAt(other, j, r))]]]

ConcatMeanFirst(a, b, c) ==
  Frame(b.cols \o a.cols \o c.cols, b.nrows, b.cell \o a.cell \o c.cell)

\* pd.concat([a, b, c], axis=1) of frames with the same row index
Concat3(a, b, c) ==
  Frame(a.cols \o b.cols \o c.cols, b.nrows, a.cell \o b.cell \o c.cell)

\* ------------------------------------------------------------------------
\* get_statistics(file_name, N, decimal_places)
\* ------------------------------------------------------------------------
MaxN == 3

MaxRows == 2

DefaultDecimalPlaces == 2

file_name == "simulation_results/5000"

InPath(i) == file_name \o "_" \o ToString(i) \o ".csv"

OutPath == file_name \o ".csv"

StatsPaths == {InPath(i) : i \in 1..(MaxN + 1)} \cup {OutPath}

StdName(col) == col \o " (std)"

VARIABLES
  fs,                \* path -> file
  N,                 \* argument N
  decimal_places,    \* argument decimal_places
  pc,                \* "start", "loop", "done", "error"
  i,                 \* loop index of line 39
  first_file,
  numeric_cols,
  non_numeric_cols,
  sum_df,
  sq_sum_df,
  result_df,
  reads,             \* the paths given to read_csv, in order
  writes,            \* the paths given to to_csv, in order
  err                \* the exception that ended the call, "" if none

statsVars == <<fs, N, decimal_places, pc, i, first_file, numeric_cols,
               non_numeric_cols, sum_df, sq_sum_df, result_df, reads,
               writes, err>>

\* state of the configuration-file generator (src/create_config_files.py)
VARIABLES
  cfs,                      \* path under PATH -> file
  calls,                    \* the generator functions still to be called
  df_arg,                   \* create_flood_level_csv: argument df
  population,               \* create_source_data_files: its arguments
  displacement,
  fraction_displaced_camp,
  fraction_stays_in_camp,
  flood_displacement,
  day,
  flood_awareness,          \* create_floodawareness_csv: its argument
  flood_level_df,           \* create_flood_level_csv: the table returned
  cwrites,                  \* the paths given to to_csv, in order
  cerr                      \* the exception that ended a call, "" if none

cfgVars == <<cfs, calls, df_arg, population, displacement,
             fraction_displaced_camp, fraction_stays_in_camp,
             flood_displacement, day, flood_awareness, flood_level_df,
             cwrites, cerr>>

\* state of create_edges_gdf (script/plot_maps.py, script/plot_route.py)
VARIABLES
  location_dict,            \* argument: location name -> point
  edges_df,                 \* argument: the route rows
  edges_gdf,                \* the GeoDataFrame returned
  edges_pc                  \* "idle", "start", "done", "error"

edgeVars == <<location_dict, edges_df, edges_gdf, edges_pc>>

\* state of create_location_file (src/create_config_files.py)
VARIABLES
  location_df,              \* argument: the rows name, latitude, longitude
  region,                   \* argument region
  country,                  \* argument country
  location_file,            \* the rows returned
  loc_pc                    \* "idle", "start", "done"

locVars == <<location_df, region, country, location_file, loc_pc>>

\* state of the downloader (src/download_data.py)
VARIABLES
  start_date,               \* arguments of generate_download_tasks
  end_date,
  pages,
  url_formats,
  current_date,             \* the loop variable of line 51
  tasks,                    \* the (image_url, filename) pairs built so far
  task_pc,                  \* "idle", "loop", "done", "pool", "raised"
  jobs,                     \* download_images: the state of each task's job
  disk,                     \* filename -> the file in the working directory
  aborted                   \* the pool has seen an exception of a job

dlVars == <<start_date, end_date, pages, url_formats, current_date, tasks,
            task_pc, jobs, disk, aborted>>

\* state of copy_settings (src/create_config_files.py)
VARIABLES
  PATH_list,                \* PATH.split("/")
  tree,                     \* directory path -> its content, or Absent
  copy_i,                   \* the loop variable i
  copy_pc,                  \* "idle", "ready", "loop"
  copy_calls,               \* the calls of copy_settings that returned
  copy_err                  \* the exception that ended a call, "" if none

copyVars == <<PATH_list, tree, copy_i, copy_pc, copy_calls, copy_err>>

\* state of classify_water_level (src/water_classification.py)
VARIABLES
  level_arg,                \* argument level
  min_level,
  max_level,
  x_arg,                    \* argument x
  water_class,              \* the value returned
  class_pc                  \* "idle", "call", "done", "raised"

classVars == <<level_arg, min_level, max_level, x_arg, water_class, class_pc>>

vars == <<statsVars, cfgVars, edgeVars, locVars, dlVars, copyVars, classVars>>

\* the variables of the components other than the one taking a step
notStatsVars == <<cfgVars, edgeVars, locVars, dlVars,
                  copyVars, classVars>>

notCfgVars == <<statsVars, edgeVars, locVars, dlVars,
                copyVars, classVars>>

notEdgeVars == <<statsVars, cfgVars, locVars, dlVars,
                 copyVars, classVars>>

notLocVars == <<statsVars, cfgVars, edgeVars, dlVars,
                copyVars, classVars>>

notDlVars == <<statsVars, cfgVars, edgeVars, locVars,
               copyVars, classVars>>

notCopyVars == <<statsVars, cfgVars, edgeVars, locVars, dlVars, classVars>>

notClassVars == <<statsVars, cfgVars, edgeVars, locVars, dlVars, copyVars>>

\* copy_settings is not called
CopyIdle ==
  /\ PATH_list = <<>>
  /\ tree = <<>>
  /\ copy_i = 0
  /\ copy_pc = "idle"
  /\ copy_calls = 0
  /\ copy_err = ""

\* classify_water_level is not called
ClassifyIdle ==
  /\ level_arg = 0
  /\ min_level = 0
  /\ max_level = 0
  /\ x_arg = 0
  /\ water_class = 0
  /\ class_pc = "idle"

\* a datetime: the proleptic Gregorian ordinal of its date and its hour
DateTime(ordinal, hour) == [ordinal |-> ordinal, hour |-> hour]

\* the downloader is not called
DownloadIdle ==
  /\ start_date = DateTime(1, 0)
  /\ end_date = DateTime(1, 0)
  /\ pages = <<>>
  /\ url_formats = <<>>
  /\ current_date = DateTime(1, 0)
  /\ tasks = <<>>
  /\ task_pc = "idle"
  /\ jobs = <<>>
  /\ disk = <<>>
  /\ aborted = FALSE

\* create_location_file is not called
LocationFileIdle ==
  /\ location_df = <<>>
  /\ region = ""
  /\ country = ""
  /\ location_file = <<>>
  /\ loc_pc = "idle"

\* an edge table not yet built
NoGdf == [crs |-> "", geometry |-> <<>>]

\* create_edges_gdf is not called
EdgesIdle ==
  /\ location_dict = <<>>
  /\ edges_df = <<>>
  /\ edges_gdf = NoGdf
  /\ edges_pc = "idle"

\* no generator function is called while get_statistics runs
\* no flood_awareness argument
NoArray == [kind |-> "none", values |-> <<>>]

ConfigIdle ==
  /\ flood_awareness = NoArray
  /\ cfs = <<>>
  /\ calls = {}
  /\ df_arg = NoFile
  /\ population = 0
  /\ displacement = 0
  /\ fraction_displaced_camp = FZero
  /\ fraction_stays_in_camp = FZero
  /\ flood_displacement = FALSE
  /\ day = 0
  /\ flood_level_df = NoFile
  /\ cwrites = <<>>
  /\ cerr = ""

RaiseIgnored(e) ==
  /\ pc' = "done"
  /\ err' = ""

\* an exception leaves get_statistics: nothing after the raising line runs
Raise(e) ==
  /\ pc' = "error"
  /\ err' = e

\* lines 31-37: read run 1, split the columns, start both sums
ReadFirst ==
  /\ pc = "start"
  /\ reads' = Append(reads, InPath(1))
  /\ IF ~fs[InPath(1)].exists
     THEN /\ Raise("FileNotFoundError")
          /\ UNCHANGED <<i, first_file, numeric_cols, non_numeric_cols,
                         sum_df, sq_sum_df>>
     ELSE IF fs[InPath(1)].cols = <<>>
     THEN /\ Raise("EmptyDataError")
          /\ UNCHANGED <<i, first_file, numeric_cols, non_numeric_cols,
                         sum_df, sq_sum_df>>
     ELSE LET df == fs[InPath(1)]
              nc == SelectDtypes(df, TRUE)
          IN  /\ first_file' = df
              /\ numeric_cols' = nc
              /\ non_numeric_cols' = SelectDtypes(df, FALSE)
              /\ sum_df' = SelectCols(df, nc)
              /\ sq_sum_df' = SquareCells(SelectCols(df, nc))
              /\ i' = 2
              /\ pc' = "loop"
              /\ err' = err
  /\ UNCHANGED <<fs, N, decimal_places, result_df, writes>>
  /\ UNCHANGED notStatsVars

\* lines 39-42: one pass of the loop, for i in range(2, N + 1)
ReadNext ==
  /\ pc = "loop"
  /\ i <= N
  /\ reads' = Append(reads, InPath(i))
  /\ LET df == fs[InPath(i)] IN
     IF ~df.exists
     THEN /\ Raise("FileNotFoundError")
          /\ UNCHANGED <<i, sum_df, sq_sum_df>>
     ELSE IF df.cols = <<>>
     THEN /\ Raise("EmptyDataError")
          /\ UNCHANGED <<i, sum_df, sq_sum_df>>
     ELSE IF \E j \in 1..Len(numeric_cols) : ~HasCol(df, numeric_cols[j])
     THEN /\ Raise("KeyError")
          /\ UNCHANGED <<i, sum_df, sq_sum_df>>
     ELSE IF \E j \in 1..Len(numeric_cols) :
               ~IsNumericCol(df, ColIndex(df, numeric_cols[j]))
     THEN /\ Raise("TypeError")
          /\ UNCHANGED <<i, sum_df, sq_sum_df>>
     ELSE /\ sum_df' = IAdd(sum_df, SelectCols(df, numeric_cols))
          /\ sq_sum_df' =
               IAdd(sq_sum_df, SquareCells(SelectCols(df, numeric_cols)))
          /\ i' = i + 1
          /\ UNCHANGED <<pc, err>>
  /\ UNCHANGED <<fs, N, decimal_places, first_file, numeric_cols,
                 non_numeric_cols, result_df, writes>>
  /\ UNCHANGED notStatsVars

MeanOfOneLess(s) == FDivInt(s, N - 1)

\* lines 44-45 for one cell
MeanOf(s) == FDivInt(s, N)

VarOf(s, q) == FSub(FDivInt(q, N), Square(MeanOf(s)))

\* line 46 for one cell
StdOf(s, q) == FSqrt(ClipLower0(VarOf(s, q)))

\* lines 44-49: the rounded mean and std frames
MeanFrame ==
  [sum_df EXCEPT !.cell = [j \in 1..Len(sum_df.cols) |->
     [r \in 1..sum_df.nrows |->
        NpRound(MeanOf(sum_df.cell[j][r]), decimal_places)]]]

StdFrame ==
  [sum_df EXCEPT
     !.cols = [j \in 1..Len(sum_df.cols) |-> StdName(sum_df.cols[j])],
     !.cell = [j \in 1..Len(sum_df.cols) |->
       [r \in 1..sum_df.nrows |->
          NpRound(StdOf(sum_df.cell[j][r], sq_sum_df.cell[j][r]),
                  decimal_places)]]]

\* lines 53-56
ResultFrame ==
  Concat3(SelectCols(first_file, non_numeric_cols), MeanFrame, StdFrame)

\* lines 44-61: after the loop, compute, assemble and write {file_name}.csv
Finish ==
  /\ pc = "loop"
  /\ i > N
  /\ result_df' = ResultFrame
  /\ fs' = [fs EXCEPT ![OutPath] = ResultFrame]
  /\ writes' = Append(writes, OutPath)
  /\ pc' = "done"
  /\ UNCHANGED <<N, decimal_places, i, first_file, numeric_cols,
                 non_numeric_cols, sum_df, sq_sum_df, reads, err>>
  /\ UNCHANGED notStatsVars

NextStats == ReadFirst \/ ReadNext \/ Finish

\* ------------------------------------------------------------------------
\* The runs given to get_statistics
\* ------------------------------------------------------------------------
\* cell values of the numeric family: 1, 2, 3, 0.1, 1000000.1 and an empty
\* cell
Values == <<FDec(1, 0), FDec(2, 0), FDec(3, 0), FDec(1, 1), FDec(10000001, 1),
            FNaN>>

DateCell(r) == Str("2024-09-" \o ToString(7 + r))

EmptyFrame == Frame(<<>>, 0, <<>>)

StatsStart(files, n, dp) ==
  /\ fs = files
  /\ N = n
  /\ decimal_places = dp
  /\ pc = "start"
  /\ i = 0
  /\ first_file = EmptyFrame
  /\ numeric_cols = <<>>
  /\ non_numeric_cols = <<>>
  /\ sum_df = EmptyFrame
  /\ sq_sum_df = EmptyFrame
  /\ result_df = EmptyFrame
  /\ reads = <<>>
  /\ writes = <<>>
  /\ err = ""
  /\ ConfigIdle
  /\ EdgesIdle
  /\ LocationFileIdle
  /\ DownloadIdle
  /\ CopyIdle
  /\ ClassifyIdle

\* single-column, single-row runs 1..n with freely chosen values
ValueRuns(n, v) ==
  [p \in StatsPaths |->
     IF \E k \in 1..n : p = InPath(k)
     THEN Frame(<<"a">>, 1,
                <<<<Values[v[CHOOSE k \in 1..n : p = InPath(k)]]>>>>)
     ELSE NoFile]

InitValues ==
  \E n \in 1..MaxN, dp \in {0, DefaultDecimalPlaces} :
    \E v \in [1..n -> 1..Len(Values)] :
      StatsStart(ValueRuns(n, v), n, dp)

\* Run tables of the shape family.  A schema lists <<column, numeric?>>;
\* run 1 follows the schema, a later run may deviate from it in one way.
\* A numeric column is turned into text read_csv keeps as text ("abc":
\* num_to_str) or into a marker of a missing value ("n/a": num_to_na), which
\* read_csv reads as NaN, so that the column stays numeric.  A run left
\* without any column is a file read_csv refuses with EmptyDataError.
Schemas ==
  { << <<"a", TRUE>> >>,
    << <<"Date", FALSE>>, <<"a", TRUE>> >>,
    << <<"a", TRUE>>, <<"Date", FALSE>>, <<"b", TRUE>> >>,
    << <<"Date", FALSE>>, <<"Label", FALSE>> >> }

Defects ==
  {"none", "missing", "drop_num", "drop_id", "extra", "num_to_str",
   "num_to_na", "id_to_num", "fewer_rows", "more_rows", "reorder"}

IdCell(run, r) ==
  IF run = 1 THEN DateCell(r)
  ELSE Str("run" \o ToString(run) \o "-" \o ToString(r))

BaseTable(schema, run, rows) ==
  Frame([j \in 1..Len(schema) |-> schema[j][1]], rows,
        [j \in 1..Len(schema) |->
           [r \in 1..rows |->
              IF schema[j][2] THEN FFromInt(run * j + r) ELSE IdCell(run, r)]])

RemoveAt(seq, j) == SubSeq(seq, 1, j - 1) \o SubSeq(seq, j + 1, Len(seq))

Reverse(seq) == [j \in 1..Len(seq) |-> seq[Len(seq) + 1 - j]]

FirstCol(t, wantNumeric) ==
  IF \E j \in 1..Len(t.cols) : IsNumericCol(t, j) = wantNumeric
  THEN CHOOSE j \in 1..Len(t.cols) :
         /\ IsNumericCol(t, j) = wantNumeric
         /\ \A h \in 1..(j - 1) : IsNumericCol(t, h) # wantNumeric
  ELSE 0

ApplyDefect(t, defect) ==
  LET jn == FirstCol(t, TRUE)
      ji == FirstCol(t, FALSE)
  IN  CASE defect = "drop_num" /\ jn > 0 ->
             [t EXCEPT !.cols = RemoveAt(t.cols, jn),
                       !.cell = RemoveAt(t.cell, jn)]
        [] defect = "drop_id" /\ ji > 0 ->
             [t EXCEPT !.cols = RemoveAt(t.cols, ji),
                       !.cell = RemoveAt(t.cell, ji)]
        [] defect = "extra" ->
             [t EXCEPT !.cols = Append(t.cols, "extra"),
                       !.cell = Append(t.cell,
                                       [r \in 1..t.nrows |-> FFromInt(9)])]
        [] defect = "num_to_str" /\ jn > 0 ->
             [t EXCEPT !.cell[jn] = [r \in 1..t.nrows |-> Str("abc")]]
        [] defect = "num_to_na" /\ jn > 0 ->
             [t EXCEPT !.cell[jn] = [r \in 1..t.nrows |-> FNaN]]
        [] defect = "id_to_num" /\ ji > 0 ->
             [t EXCEPT !.cell[ji] = [r \in 1..t.nrows |-> FFromInt(r)]]
        [] defect = "fewer_rows" /\ t.nrows > 1 ->
             [t EXCEPT !.nrows = t.nrows - 1,
                       !.cell = [j \in 1..Len(t.cols) |->
                                   SubSeq(t.cell[j], 1, t.nrows - 1)]]
        [] defect = "more_rows" ->
             [t EXCEPT !.nrows = t.nrows + 1,
                       !.cell = [j \in 1..Len(t.cols) |->
                                   Append(t.cell[j], t.cell[j][t.nrows])]]
        [] defect = "reorder" ->
             [t EXCEPT !.cols = Reverse(t.cols), !.cell = Reverse(t.cell)]
        [] OTHER -> t

\* what an earlier call left at {file_name}.csv
StaleFrame == Frame(<<"stale">>, 1, <<<<Str("old")>>>>)

\* runs 1..present exist; run d deviates by defect
ShapeRuns(schema, rows, present, defect, d, stale) ==
  [p \in StatsPaths |->
     IF p = OutPath THEN (IF stale THEN StaleFrame ELSE NoFile)
     ELSE LET run == CHOOSE k \in 1..(MaxN + 1) : p = InPath(k)
          IN  IF run > present \/ (defect = "missing" /\ run = d) THEN NoFile
              ELSE IF run = d THEN ApplyDefect(BaseTable(schema, run, rows),
                                               defect)
              ELSE BaseTable(schema, run, rows)]

InitShapes ==
  \E schema \in Schemas, rows \in 1..MaxRows, n \in 0..MaxN,
     present \in 0..(MaxN + 1), defect \in Defects, d \in 2..MaxN,
     stale \in BOOLEAN :
    /\ present \in {0, n, n + 1}
    /\ defect = "none" => d = 2
    /\ StatsStart(ShapeRuns(schema, rows, present, defect, d, stale), n,
                  DefaultDecimalPlaces)

InitStats == InitValues \/ InitShapes

SpecStats == InitStats /\ [][NextStats]_vars

\* ------------------------------------------------------------------------
\* Location names.  A name is the sequence of its characters, so that
\* str.lower() and the substring test `in` are computed on it.
\* ------------------------------------------------------------------------
UpperCase == <<"A", "B", "C", "D", "E", "F", "G", "H", "I", "J", "K", "L",
               "M", "N", "O", "P", "Q", "R", "S", "T", "U", "V", "W", "X",
               "Y", "Z">>

LowerCase == <<"a", "b", "c", "d", "e", "f", "g", "h", "i", "j", "k", "l",
               "m", "n", "o", "p", "q", "r", "s", "t", "u", "v", "w", "x",
               "y", "z">>

LowerChar(c) ==
  IF \E k \in 1..Len(UpperCase) : UpperCase[k] = c
  THEN LowerCase[CHOOSE k \in 1..Len(UpperCase) : UpperCase[k] = c]
  ELSE c

\* location.lower()
Lower(name) == [k \in 1..Len(name) |-> LowerChar(name[k])]

\* needle in name
Contains(needle, name) ==
  \E k \in 1..(Len(name) - Len(needle) + 1) :
    SubSeq(name, k, k + Len(needle) - 1) = needle

\* the characters as one string, as an f-string places them in a path
RECURSIVE JoinChars(_)
JoinChars(name) ==
  IF name = <<>> THEN "" ELSE name[1] \o JoinChars(Tail(name))

camp == <<"c", "a", "m", "p">>

temple == <<"t", "e", "m", "p", "l", "e">>

town == <<"t", "o", "w", "n">>

flood_zone == <<"f", "l", "o", "o", "d", "_", "z", "o", "n", "e">>

\* ------------------------------------------------------------------------
\* Files of the generator, all under PATH
\* ------------------------------------------------------------------------
PATH == "config/"

LocationsPath == PATH \o "input_csv/locations.csv"

FloodLevelPath == PATH \o "input_csv/flood_level.csv"

SourceDataPath(location) ==
  PATH \o "source_data/" \o JoinChars(location) \o ".csv"

RefugeesPath == PATH \o "source_data/refugees.csv"

\* get_locations(PATH)["#name"].tolist(), of a registry that exists
LocationsList(files) ==
  LET locations_df == files[LocationsPath]
      col == locations_df.cell[ColIndex(locations_df, "#name")]
  IN  [k \in 1..locations_df.nrows |-> col[k].t]

CRaiseSwallowed(e) ==
  /\ cerr' = ""
  /\ calls' = {}

\* an exception leaves the generator: no later line and no later call runs
CRaise(e) ==
  /\ cerr' = e
  /\ calls' = {}

\* ------------------------------------------------------------------------
\* create_flood_level_csv(df, PATH)
\* ------------------------------------------------------------------------
CampOffsetOne(level) ==
  LET y == FSub(level, FFromInt(1)) IN IF FLess(FZero, y) THEN y ELSE FZero

\* max(0, level - 2)
CampLevel(level) ==
  LET y == FSub(level, FFromInt(2)) IN IF FLess(FZero, y) THEN y ELSE FZero

\* max(0, level - 1)
TownLevel(level) ==
  LET y == FSub(level, FFromInt(1)) IN IF FLess(FZero, y) THEN y ELSE FZero

AdjustedLevelCampFirst(location, flood_level) ==
  IF Contains(camp, location)
  THEN [k \in 1..Len(flood_level) |-> CampLevel(flood_level[k])]
  ELSE IF Contains(temple, location)
  THEN [k \in 1..Len(flood_level) |-> FFromInt(0)]
  ELSE IF Contains(town, location)
  THEN [k \in 1..Len(flood_level) |-> TownLevel(flood_level[k])]
  ELSE flood_level

\* lines 124-134: the column of one location
AdjustedLevel(location, flood_level) ==
  IF Contains(temple, location)
  THEN [k \in 1..Len(flood_level) |-> FFromInt(0)]
  ELSE IF Contains(camp, location)
  THEN [k \in 1..Len(flood_level) |-> CampLevel(flood_level[k])]
  ELSE IF Contains(town, location)
  THEN [k \in 1..Len(flood_level) |-> TownLevel(flood_level[k])]
  ELSE flood_level

FloodLevelFrameDaysFromOne(locations_list, table) ==
  LET days == table.cell[ColIndex(table, "Date")]
      flood_level == table.cell[ColIndex(table, "Water Level Classification")]
  IN  Frame(<<"#Day">> \o [k \in 1..Len(locations_list) |->
                             JoinChars(locations_list[k])],
            Len(days),
            <<[k \in 1..Len(days) |-> FFromInt(k)]>> \o
            [k \in 1..Len(locations_list) |->
               AdjustedLevel(Lower(locations_list[k]), flood_level)])

\* lines 117-136: "#Day" and one column per location of the registry
FloodLevelFrame(locations_list, table) ==
  LET days == table.cell[ColIndex(table, "Date")]
      flood_level == table.cell[ColIndex(table, "Water Level Classification")]
  IN  Frame(<<"#Day">> \o [k \in 1..Len(locations_list) |->
                             JoinChars(locations_list[k])],
            Len(days),
            <<[k \in 1..Len(days) |-> FFromInt(k - 1)]>> \o
            [k \in 1..Len(locations_list) |->
               AdjustedLevel(Lower(locations_list[k]), flood_level)])

MissingColumnUnnamed(name) == "AssertionError"

\* lines 112-115: the message of a failed assertion
MissingColumn(name) ==
  "AssertionError: " \o name \o " column is missing in the DataFrame"

create_flood_level_csv ==
  /\ cerr = ""
  /\ "create_flood_level_csv" \in calls
  /\ IF ~cfs[LocationsPath].exists
     THEN /\ CRaise("FileNotFoundError")
          /\ UNCHANGED <<cfs, flood_level_df, cwrites>>
     ELSE IF ~HasCol(df_arg, "Date")
     THEN /\ CRaise(MissingColumn("Date"))
          /\ UNCHANGED <<cfs, flood_level_df, cwrites>>
     ELSE IF ~HasCol(df_arg, "Water Level Classification")
     THEN /\ CRaise(MissingColumn("Water Level Classification"))
          /\ UNCHANGED <<cfs, flood_level_df, cwrites>>
     ELSE LET out == FloodLevelFrame(LocationsList(cfs), df_arg)
          IN  /\ cfs' = [cfs EXCEPT ![FloodLevelPath] = out]
              /\ flood_level_df' = out
              /\ cwrites' = Append(cwrites, FloodLevelPath)
              /\ calls' = calls \ {"create_flood_level_csv"}
              /\ cerr' = cerr
  /\ UNCHANGED <<df_arg, population, displacement, fraction_displaced_camp,
                 fraction_stays_in_camp, flood_displacement, day,
                 flood_awareness>>
  /\ UNCHANGED notCfgVars

\* ------------------------------------------------------------------------
\* create_source_data_files(PATH, population, displacement,
\*   fraction_displaced_camp, fraction_stays_in_camp, flood_displacement, day)
\* ------------------------------------------------------------------------
DefaultPopulation == 15567

DefaultDisplacement == 5000

DefaultDay == 14

\* lines 245-250: the locations whose lower-cased name contains needle
RECURSIVE LocationsWith(_, _)
LocationsWith(needle, locations_list) ==
  IF locations_list = <<>> THEN <<>>
  ELSE IF Contains(needle, Lower(Head(locations_list)))
  THEN <<Head(locations_list)>> \o LocationsWith(needle, Tail(locations_list))
  ELSE LocationsWith(needle, Tail(locations_list))

camp_locations(locations_list) == LocationsWith(camp, locations_list)

temple_locations(locations_list) == LocationsWith(temple, locations_list)

floodzone_locations(locations_list) == LocationsWith(flood_zone, locations_list)

displacement_camp_undivided(locations_list) ==
  FTrunc(FMul(FFromInt(displacement), fraction_displaced_camp))

\* lines 252-254: int((displacement * fraction_displaced_camp) / len(camps))
displacement_camp(locations_list) ==
  FTrunc(FDivInt(FMul(FFromInt(displacement), fraction_displaced_camp),
                 Len(camp_locations(locations_list))))

\* lines 255-257
displacement_temple(locations_list) ==
  FTrunc(FDivInt(FMul(FFromInt(displacement),
                      FSub(FFromInt(1), fraction_displaced_camp)),
                 Len(temple_locations(locations_list))))

\* line 258: int(population / len(floodzone_locations))
floodzone_population(locations_list) ==
  FTrunc(FDivInt(FFromInt(population),
                 Len(floodzone_locations(locations_list))))

\* int(n * fraction) of an int n and a float fraction
IntTimes(n, fraction) == FTrunc(FMul(FFromInt(n), fraction))

\* lines 296-314: the three displacement values of one location's file
Displacements(location, d_camp, d_temple, fz_population) ==
  LET lower == Lower(location)
      t0 == <<0, 0, 0>>
      t1 == IF Contains(camp, lower)
            THEN <<t0[1], d_camp, IntTimes(d_camp, fraction_stays_in_camp)>>
            ELSE t0
      t2 == IF Contains(temple, lower)
            THEN <<t1[1], d_temple,
                   IntTimes(d_temple, fraction_stays_in_camp)>>
            ELSE t1
  IN  IF Contains(flood_zone, lower) /\ flood_displacement
      THEN <<fz_population, IntTimes(fz_population, FDec(4, 1)),
             IntTimes(fz_population, FDec(1, 1))>>
      ELSE t2

TemplateDays == <<"2024-09-08", "2024-09-14", "2024-09-30">>

\* lines 296-320: the file of one location, written without a header
template_df(location, d_camp, d_temple, fz_population) ==
  LET v == Displacements(location, d_camp, d_temple, fz_population)
  IN  Frame(<<>>, 3, <<[k \in 1..3 |-> Str(TemplateDays[k])],
                       [k \in 1..3 |-> FFromInt(v[k])]>>)

\* f"{day:02d}"
TwoDigits(n) == IF n < 10 THEN "0" \o ToString(n) ELSE ToString(n)

\* lines 337-341
refugee_df(d, refugee_numbers) ==
  Frame(<<"Date", "Refugee_numbers">>, 1,
        <<<<Str("2024-09-" \o TwoDigits(d))>>,
          <<FFromInt(refugee_numbers)>>>>)

\* line 209
WrittenLocations(locations_list) == camp_locations(locations_list)

\* the file system after lines 208-217
SourceDataWritten(files, locations_list) ==
  LET written == WrittenLocations(locations_list)
      d_camp == displacement_camp(locations_list)
      d_temple == displacement_temple(locations_list)
      fz_population == floodzone_population(locations_list)
  IN  [p \in DOMAIN files |->
         IF p = RefugeesPath THEN refugee_df(day, displacement)
         ELSE IF \E k \in 1..Len(written) : p = SourceDataPath(written[k])
         THEN template_df(
                written[CHOOSE k \in 1..Len(written) :
                          p = SourceDataPath(written[k])],
                d_camp, d_temple, fz_population)
         ELSE files[p]]

create_source_data_files ==
  /\ cerr = ""
  /\ "create_source_data_files" \in calls
  /\ IF ~cfs[LocationsPath].exists
     THEN /\ CRaise("FileNotFoundError")
          /\ UNCHANGED <<cfs, cwrites>>
     ELSE LET locations_list == LocationsList(cfs)
              written == WrittenLocations(locations_list)
          IN  IF \/ camp_locations(locations_list) = <<>>
                 \/ temple_locations(locations_list) = <<>>
                 \/ floodzone_locations(locations_list) = <<>>
              THEN /\ CRaise("ZeroDivisionError")
                   /\ UNCHANGED <<cfs, cwrites>>
              ELSE /\ cfs' = SourceDataWritten(cfs, locations_list)
                   /\ cwrites' = cwrites \o
                        [k \in 1..Len(written) |-> SourceDataPath(written[k])]
                        \o <<RefugeesPath>>
                   /\ calls' = calls \ {"create_source_data_files"}
                   /\ cerr' = cerr
  /\ UNCHANGED <<df_arg, population, displacement, fraction_displaced_camp,
                 fraction_stays_in_camp, flood_displacement, day,
                 flood_awareness, flood_level_df>>
  /\ UNCHANGED notCfgVars

\* ------------------------------------------------------------------------
\* create_floodawareness_csv(flood_awareness, PATH)
\* ------------------------------------------------------------------------
FloodAwarenessPath == PATH \o "input_csv/demographics_floodawareness.csv"

\* lines 161-162: the rows .loc[:, col] = flood_awareness gives the frame
\* that starts without rows.  The values enlarge it, but an array of one
\* element is, from pandas 1.5 on, spread over the rows there are: none.
\* The repository does not name the pandas it runs with.
FloodAwarenessRows(values) ==
  IF Len(values) = 1 THEN {0, 1} ELSE {Len(values)}

\* lines 160-162: every column, "floodawareness" and one per location,
\* holds the values of the array in its rows
FloodAwarenessFrame(locations_list, values, rows) ==
  Frame(<<"floodawareness">> \o [k \in 1..Len(locations_list) |->
                                   JoinChars(locations_list[k])],
        rows,
        [k \in 1..(Len(locations_list) + 1) |-> SubSeq(values, 1, rows)])

create_floodawareness_csv ==
  /\ cerr = ""
  /\ "create_floodawareness_csv" \in calls
  /\ IF flood_awareness.kind # "ndarray"
     THEN /\ CRaise("AssertionError: flood_awareness must be a numpy array")
          /\ UNCHANGED <<cfs, cwrites>>
     ELSE IF ~cfs[LocationsPath].exists
     THEN /\ CRaise("FileNotFoundError")
          /\ UNCHANGED <<cfs, cwrites>>
     ELSE /\ \E rows \in FloodAwarenessRows(flood_awareness.values) :
               cfs' = [cfs EXCEPT ![FloodAwarenessPath] =
                         FloodAwarenessFrame(LocationsList(cfs),
                                             flood_awareness.values, rows)]
          /\ cwrites' = Append(cwrites, FloodAwarenessPath)
          /\ calls' = calls \ {"create_floodawareness_csv"}
          /\ cerr' = cerr
  /\ UNCHANGED <<df_arg, population, displacement, fraction_displaced_camp,
                 fraction_stays_in_camp, flood_displacement, day,
                 flood_awareness, flood_level_df>>
  /\ UNCHANGED notCfgVars

\* ------------------------------------------------------------------------
\* create_data_layout(PATH)
\* ------------------------------------------------------------------------
DataLayoutOverRegistry == PATH \o "input_csv/locations.csv"

DataLayoutPath == PATH \o "source_data/data_layout.csv"

\* lines 354-358: the names, and beside each the name of its file
data_layout_df(locations_list) ==
  Frame(<<"total", "refugees.csv">>, Len(locations_list),
        <<[k \in 1..Len(locations_list) |-> Str(locations_list[k])],
          [k \in 1..Len(locations_list) |->
             Str(JoinChars(locations_list[k]) \o ".csv")]>>)

create_data_layout ==
  /\ cerr = ""
  /\ "create_data_layout" \in calls
  /\ IF ~cfs[LocationsPath].exists
     THEN /\ CRaise("FileNotFoundError")
          /\ UNCHANGED <<cfs, cwrites>>
     ELSE /\ cfs' = [cfs EXCEPT ![DataLayoutPath] =
                       data_layout_df(LocationsList(cfs))]
          /\ cwrites' = Append(cwrites, DataLayoutPath)
          /\ calls' = calls \ {"create_data_layout"}
          /\ cerr' = cerr
  /\ UNCHANGED <<df_arg, population, displacement, fraction_displaced_camp,
                 fraction_stays_in_camp, flood_displacement, day,
                 flood_awareness, flood_level_df>>
  /\ UNCHANGED notCfgVars

NextConfig ==
  \/ create_flood_level_csv
  \/ create_floodawareness_csv
  \/ create_source_data_files
  \/ create_data_layout

\* ------------------------------------------------------------------------
\* The registries and arguments given to the generator
\* ------------------------------------------------------------------------
MaxDays == 2

MaxLevel == 3

Town_1 ==
  <<"T", "o", "w", "n", "_", "1">>

Camp_1 ==
  <<"C", "a", "m", "p", "_", "1">>

Flood_zone_1 ==
  <<"F", "l", "o", "o", "d", "_", "z", "o", "n", "e", "_", "1">>

Temple_1 ==
  <<"T", "e", "m", "p", "l", "e", "_", "1">>

CAMP_2 ==
  <<"C", "A", "M", "P", "_", "2">>

Hub_1 ==
  <<"H", "u", "b", "_", "1">>

Temple_camp_1 ==
  <<"T", "e", "m", "p", "l", "e", "_", "c", "a", "m", "p", "_", "1">>

Flood_zone_camp_1 ==
  <<"F", "l", "o", "o", "d", "_", "z", "o", "n", "e", "_", "c", "a", "m", "p", "_", "1">>

\* the names a registry draws from, in the order of its rows
Universe == <<Town_1, Camp_1, Flood_zone_1, Temple_1,
              CAMP_2, Hub_1, Temple_camp_1, Flood_zone_camp_1>>

RECURSIVE Pick(_, _, _)
Pick(seq, S, k) ==
  IF k > Len(seq) THEN <<>>
  ELSE IF k \in S THEN <<seq[k]>> \o Pick(seq, S, k + 1)
  ELSE Pick(seq, S, k + 1)

Registries == {Pick(Universe, S, 1) : S \in SUBSET (1..Len(Universe))}

\* the registries of at most four locations
SmallRegistries == {registry \in Registries : Len(registry) <= 4}

\* input_csv/locations.csv with the rows of a registry
RegistryFrame(names) ==
  Frame(<<"#name">>, Len(names), <<[k \in 1..Len(names) |-> Str(names[k])]>>)

CfgPaths ==
  {LocationsPath, FloodLevelPath, FloodAwarenessPath, RefugeesPath,
   DataLayoutPath}
    \cup {SourceDataPath(Universe[k]) : k \in 1..Len(Universe)}

\* what an earlier run of the generator left behind
StaleOutput == Frame(<<"stale">>, 1, <<<<Str("stale")>>>>)

ConfigFiles(registry, present, stale) ==
  [p \in CfgPaths |->
     IF p = LocationsPath
     THEN IF present THEN RegistryFrame(registry) ELSE NoFile
     ELSE IF stale THEN StaleOutput ELSE NoFile]

\* get_statistics is not running while the generator runs
StatsIdle ==
  /\ fs = <<>>
  /\ N = 0
  /\ decimal_places = 0
  /\ pc = "idle"
  /\ i = 0
  /\ first_file = EmptyFrame
  /\ numeric_cols = <<>>
  /\ non_numeric_cols = <<>>
  /\ sum_df = EmptyFrame
  /\ sq_sum_df = EmptyFrame
  /\ result_df = EmptyFrame
  /\ reads = <<>>
  /\ writes = <<>>
  /\ err = ""

ConfigStart(files, fns, table, pop, disp, f_camp, f_stays, flood, d) ==
  /\ cfs = files
  /\ calls = fns
  /\ df_arg = table
  /\ population = pop
  /\ displacement = disp
  /\ fraction_displaced_camp = f_camp
  /\ fraction_stays_in_camp = f_stays
  /\ flood_displacement = flood
  /\ day = d
  /\ flood_level_df = NoFile
  /\ cwrites = <<>>
  /\ cerr = ""
  /\ StatsIdle
  /\ EdgesIdle
  /\ LocationFileIdle
  /\ DownloadIdle
  /\ CopyIdle
  /\ ClassifyIdle

\* the classified water levels of n days, with or without a needed column
LevelTable(shape, levels) ==
  LET n == Len(levels)
      dates == [r \in 1..n |-> DateCell(r)]
      cls == [r \in 1..n |-> FFromInt(levels[r])]
  IN  IF shape = "no_column"
      THEN Frame(<<"Station">>, n, <<cls>>)
      ELSE IF shape = "no_date"
      THEN Frame(<<"Water Level Classification">>, n, <<cls>>)
      ELSE IF shape = "no_level"
      THEN Frame(<<"Date">>, n, <<dates>>)
      ELSE Frame(<<"Date", "Water Level Classification">>, n, <<dates, cls>>)

InitFloodLevel ==
  \E registry \in SmallRegistries, present \in BOOLEAN, stale \in BOOLEAN,
     shape \in {"ok", "no_date", "no_level", "no_column"}, n \in 0..MaxDays :
    \E levels \in [1..n -> 0..MaxLevel] :
      /\ (~present \/ shape # "ok") =>
           (n = 1 /\ registry = Pick(Universe, {1, 2}, 1))
      /\ stale => n <= 1
      /\ ConfigStart(ConfigFiles(registry, present, stale),
                     {"create_flood_level_csv"}, LevelTable(shape, levels),
                     DefaultPopulation, DefaultDisplacement, FDec(93, 2),
                     FDec(1, 0), FALSE, DefaultDay)
      /\ flood_awareness = NoArray

\* fraction_displaced_camp and fraction_stays_in_camp, in hundredths
CampFractions == {93, 29, 35}

StayFractions == {100, 29}

InitSourceData ==
  \E registry \in Registries, present \in BOOLEAN, stale \in BOOLEAN,
     disp \in {DefaultDisplacement, 100}, f \in CampFractions,
     g \in StayFractions, flood \in BOOLEAN, d \in {DefaultDay, 8} :
    /\ (~present \/ stale \/ d # DefaultDay) =>
         (disp = DefaultDisplacement /\ f = 93 /\ g = 100 /\ ~flood)
    /\ ~present => (~stale /\ d = DefaultDay
                    /\ registry = Pick(Universe, {1, 2}, 1))
    /\ ConfigStart(ConfigFiles(registry, present, stale),
                   {"create_source_data_files"}, NoFile, DefaultPopulation,
                   disp, FDec(f, 2), FDec(g, 2), flood, d)
    /\ flood_awareness = NoArray

\* the flood_awareness arguments: arrays of no, one and two values, and a
\* list, which is not an array
Arrays ==
  {[kind |-> "ndarray", values |-> <<>>],
   [kind |-> "ndarray", values |-> <<FDec(5, 1)>>],
   [kind |-> "ndarray", values |-> <<FDec(1, 1), FDec(9, 1)>>],
   [kind |-> "list", values |-> <<FDec(5, 1)>>]}

\* registries with all three needed kinds of location, and one without a
\* camp
LayoutRegistries ==
  {<<Camp_1, Flood_zone_1, Temple_1>>,
   <<Town_1, Camp_1, Flood_zone_1, Temple_1, CAMP_2>>,
   <<Flood_zone_1, Temple_camp_1>>,
   <<Flood_zone_1, Temple_1>>}

\* the whole generator: the four functions called on one PATH, in any order
InitGenerator ==
  \E registry \in LayoutRegistries, present \in BOOLEAN, stale \in BOOLEAN,
     array \in Arrays, fns \in SUBSET {"create_flood_level_csv",
                                       "create_floodawareness_csv"} :
    /\ ConfigStart(ConfigFiles(registry, present, stale),
                   fns \cup {"create_source_data_files", "create_data_layout"},
                   LevelTable("ok", <<2>>), DefaultPopulation,
                   DefaultDisplacement, FDec(93, 2), FDec(1, 0), FALSE,
                   DefaultDay)
    /\ flood_awareness = array

InitConfig == InitFloodLevel \/ InitSourceData \/ InitGenerator

SpecConfig == InitConfig /\ [][NextConfig]_vars

\* names that fall under more than one rule of create_flood_level_csv
Town_camp_1 ==
  <<"T", "o", "w", "n", "_", "c", "a", "m", "p", "_", "1">>

Temple_town_1 ==
  <<"T", "e", "m", "p", "l", "e", "_", "t", "o", "w", "n", "_", "1">>

CAMP_TEMPLE_TOWN ==
  <<"C", "A", "M", "P", "_", "T", "E", "M", "P", "L", "E", "_", "T", "O", "W", "N">>

MixedUniverse == <<Temple_camp_1, Town_camp_1, Temple_town_1,
                   CAMP_TEMPLE_TOWN, Town_1, Hub_1>>

MixedRegistries ==
  {registry \in {Pick(MixedUniverse, S, 1) :
                   S \in SUBSET (1..Len(MixedUniverse))} :
     Len(registry) \in 1..3}

InitPrecedence ==
  \E registry \in MixedRegistries, n \in 1..MaxDays :
    \E levels \in [1..n -> 0..MaxLevel] :
      /\ ConfigStart(ConfigFiles(registry, TRUE, FALSE),
                     {"create_flood_level_csv"}, LevelTable("ok", levels),
                     DefaultPopulation, DefaultDisplacement, FDec(93, 2),
                     FDec(1, 0), FALSE, DefaultDay)
      /\ flood_awareness = NoArray

SpecPrecedence == InitPrecedence /\ [][create_flood_level_csv]_vars

\* the figures of _create_camp_and_floodzone_locations: displacements from
\* 0 to MaxDisplaced and the defaults, fractions from 0 to 1, populations
\* from 0 up, on the registries of at most four locations that have a camp,
\* a temple and a flood zone
MaxDisplaced == 7

FigureRegistries ==
  {registry \in SmallRegistries :
     /\ camp_locations(registry) # <<>>
     /\ temple_locations(registry) # <<>>
     /\ floodzone_locations(registry) # <<>>}

FigureFractions == {0, 7, 29, 50, 93, 100}

InitFigures ==
  \E registry \in FigureRegistries,
     disp \in (0..MaxDisplaced) \cup {100, DefaultDisplacement},
     f \in FigureFractions, pop \in {0, 1, 10, DefaultPopulation} :
    /\ ConfigStart(ConfigFiles(registry, TRUE, FALSE),
                   {"create_source_data_files"}, NoFile, pop, disp,
                   FDec(f, 2), FDec(1, 0), FALSE, DefaultDay)
    /\ flood_awareness = NoArray

SpecFigures == InitFigures /\ [][create_source_data_files]_vars

\* the components that read and write files under one roof: the
\* aggregator and the generator
SpecFiles == (InitStats \/ InitConfig) /\ [][NextStats \/ NextConfig]_vars

\* ------------------------------------------------------------------------
\* create_edges_gdf(location_dict, edges_df)
\* ------------------------------------------------------------------------
\* LineString([a, b])
LineString(a, b) == <<a, b>>

\* to_crs(epsg=3857) of one line; the projection itself is kept symbolic
ToWebMercator(line) == [crs |-> "EPSG:3857", of |-> line]

RECURSIVE LinesReversed(_, _)
LinesReversed(dict, rows) ==
  IF rows = <<>> THEN <<>>
  ELSE LET row == Head(rows) IN
       IF row.location_1 \in DOMAIN dict /\ row.location_2 \in DOMAIN dict
       THEN LinesReversed(dict, Tail(rows))
              \o <<LineString(dict[row.location_1], dict[row.location_2])>>
       ELSE LinesReversed(dict, Tail(rows))

\* lines 65-69: one line per row whose two endpoints are keys of the dict
RECURSIVE Lines(_, _)
Lines(dict, rows) ==
  IF rows = <<>> THEN <<>>
  ELSE LET row == Head(rows) IN
       IF row.location_1 \in DOMAIN dict /\ row.location_2 \in DOMAIN dict
       THEN <<LineString(dict[row.location_1], dict[row.location_2])>>
              \o Lines(dict, Tail(rows))
       ELSE Lines(dict, Tail(rows))

\* lines 65-72
create_edges_gdf ==
  /\ edges_pc = "start"
  /\ LET lines == Lines(location_dict, edges_df)
     IN  edges_gdf' = [crs |-> "EPSG:3857",
                       geometry |-> [k \in 1..Len(lines) |->
                                       ToWebMercator(lines[k])]]
  /\ edges_pc' = "done"
  /\ UNCHANGED <<location_dict, edges_df>>
  /\ UNCHANGED notEdgeVars

NextEdges == create_edges_gdf

\* the route tables and registries given to create_edges_gdf
MaxRoutes == 3

\* the names routes draw from, each with the point the registry gives it
RouteNames == <<Town_1, Camp_1, Flood_zone_1>>

PointOf(name) ==
  LET k == CHOOSE j \in 1..Len(RouteNames) : RouteNames[j] = name
  IN  <<96 + k, 18 + k>>

RouteRows ==
  {[location_1 |-> RouteNames[a], location_2 |-> RouteNames[b]] :
     a \in 1..Len(RouteNames), b \in 1..Len(RouteNames)}

InitEdges ==
  \E known \in SUBSET {RouteNames[k] : k \in 1..Len(RouteNames)},
     n \in 0..MaxRoutes :
    \E rows \in [1..n -> RouteRows] :
      /\ location_dict = [name \in known |-> PointOf(name)]
      /\ edges_df = rows
      /\ edges_gdf = NoGdf
      /\ edges_pc = "start"
      /\ StatsIdle
      /\ ConfigIdle
      /\ LocationFileIdle
      /\ DownloadIdle
      /\ CopyIdle
      /\ ClassifyIdle

SpecEdges == InitEdges /\ [][NextEdges]_vars

\* ------------------------------------------------------------------------
\* create_location_file(location_df, region, country)
\* ------------------------------------------------------------------------
Digits == <<"0", "1", "2", "3", "4", "5", "6", "7", "8", "9">>

IsDigit(c) == \E k \in 1..Len(Digits) : Digits[k] = c

\* the characters of names in code point order
CodeOrder == Digits \o UpperCase \o <<"_">> \o LowerCase

Code(c) == CHOOSE k \in 1..Len(CodeOrder) : CodeOrder[k] = c

\* a < b as Python orders two str
RECURSIVE StrLess(_, _)
StrLess(a, b) ==
  IF b = <<>> THEN FALSE
  ELSE IF a = <<>> THEN TRUE
  ELSE IF a[1] = b[1] THEN StrLess(Tail(a), Tail(b))
  ELSE Code(a[1]) < Code(b[1])

\* .str.replace(r"_\d+$", "", regex=True)
StripNumericSuffix(text) ==
  LET cuts == {c \in 1..(Len(text) - 1) :
                 /\ text[c] = "_"
                 /\ \A j \in (c + 1)..Len(text) : IsDigit(text[j])}
  IN  IF cuts = {} THEN text
      ELSE SubSeq(text, 1, (CHOOSE c \in cuts : \A j \in cuts : c <= j) - 1)

\* line 87
location_type(name) == StripNumericSuffix(Lower(name))

Unsorted(rows) == rows

\* line 88: sort_values(by="#name")
RECURSIVE SortByName(_)
SortByName(rows) ==
  IF rows = <<>> THEN <<>>
  ELSE LET least == CHOOSE k \in 1..Len(rows) :
                      /\ \A j \in 1..Len(rows) :
                           ~StrLess(rows[j].name, rows[k].name)
                      /\ \A j \in 1..(k - 1) :
                           StrLess(rows[k].name, rows[j].name)
       IN  <<rows[least]>> \o SortByName(RemoveAt(rows, least))

\* lines 64-87: the assigned columns; conflict_period and population stay
\* empty
AssignedRows(rows) ==
  [k \in 1..Len(rows) |->
     [name |-> rows[k].name,
      region |-> region,
      country |-> country,
      latitude |-> rows[k].latitude,
      longitude |-> rows[k].longitude,
      location_type |-> location_type(rows[k].name),
      conflict_period |-> "NaN",
      population |-> "NaN"]]

create_location_file ==
  /\ loc_pc = "start"
  /\ location_file' = SortByName(AssignedRows(location_df))
  /\ loc_pc' = "done"
  /\ UNCHANGED <<location_df, region, country>>
  /\ UNCHANGED notLocVars

NextLocations == create_location_file

\* the location tables given to create_location_file
MaxLocations == 3

Camp_3 ==
  <<"C", "a", "m", "p", "_", "3">>

Flood_zone_12 ==
  <<"F", "l", "o", "o", "d", "_", "z", "o", "n", "e", "_", "1", "2">>

Town ==
  <<"T", "o", "w", "n">>

camp_1 ==
  <<"c", "a", "m", "p", "_", "1">>

Camp3 ==
  <<"C", "a", "m", "p", "3">>

Temple_1_2 ==
  <<"T", "e", "m", "p", "l", "e", "_", "1", "_", "2">>

CAMP_underscore ==
  <<"C", "A", "M", "P", "_">>

RawNames == <<Town, Camp_3, camp_1, Flood_zone_12, Camp3, Temple_1_2,
              CAMP_underscore>>

InitLocations ==
  \E n \in 0..MaxLocations :
    \E pick \in [1..n -> 1..Len(RawNames)] :
      /\ \A a, b \in 1..n : pick[a] = pick[b] => a = b
      /\ location_df = [k \in 1..n |->
                          [name |-> RawNames[pick[k]],
                           latitude |-> 18 + pick[k],
                           longitude |-> 96 + pick[k]]]
      /\ region = "Toungoo"
      /\ country = "Myanmar"
      /\ location_file = <<>>
      /\ loc_pc = "start"
      /\ StatsIdle
      /\ ConfigIdle
      /\ EdgesIdle
      /\ DownloadIdle
      /\ CopyIdle
      /\ ClassifyIdle

SpecLocations == InitLocations /\ [][NextLocations]_vars

\* ------------------------------------------------------------------------
\* generate_download_tasks(start_date, end_date, pages, url_formats)
\* ------------------------------------------------------------------------
IsLeap(y) == (y % 4 = 0 /\ y % 100 # 0) \/ y % 400 = 0

DaysInMonth(y, m) ==
  IF m = 2 THEN (IF IsLeap(y) THEN 29 ELSE 28)
  ELSE IF m \in {4, 6, 9, 11} THEN 30 ELSE 31

\* the ordinal of 31 December of year y - 1
DaysBeforeYear(y) ==
  (y - 1) * 365 + (y - 1) \div 4 - (y - 1) \div 100 + (y - 1) \div 400

YearOf(ordinal) ==
  LET guess == (ordinal * 400) \div 146097
  IN  CHOOSE y \in (guess - 1)..(guess + 2) :
        DaysBeforeYear(y) < ordinal /\ ordinal <= DaysBeforeYear(y + 1)

RECURSIVE MonthDay(_, _, _)
MonthDay(y, m, k) ==
  IF k <= DaysInMonth(y, m) THEN <<m, k>>
  ELSE MonthDay(y, m + 1, k - DaysInMonth(y, m))

\* current_date.strftime("%-d-%-m-%Y"), e.g. 8-9-2024
Strftime(date) ==
  LET y == YearOf(date.ordinal)
      md == MonthDay(y, 1, date.ordinal - DaysBeforeYear(y))
  IN  ToString(md[2]) \o "-" \o ToString(md[1]) \o "-" \o ToString(y)

\* a <= b of two datetimes
DateLeq(a, b) ==
  a.ordinal < b.ordinal \/ (a.ordinal = b.ordinal /\ a.hour <= b.hour)

\* date + timedelta(days=1)
NextDay(date) == [date EXCEPT !.ordinal = @ + 1]

\* a URL template: the text before, between and after its two {} fields
UrlFormat(before, between, after) == <<before, between, after>>

\* url_format.format(date_str, page)
Format(url_format, date_str, page) ==
  url_format[1] \o date_str \o url_format[2] \o ToString(page)
    \o url_format[3]

\* line 58
Filename(date_str, page) ==
  "Waterlevel_Forecast_" \o date_str \o "_Page_" \o ToString(page) \o ".png"

DayTasksFormatMajor(date_str, page_list, formats) ==
  [k \in 1..(Len(page_list) * Len(formats)) |->
     LET page == page_list[((k - 1) % Len(page_list)) + 1]
         url_format == formats[((k - 1) \div Len(page_list)) + 1]
     IN  <<Format(url_format, date_str, page), Filename(date_str, page)>>]

\* lines 55-59: the tasks of one date, page by page and template by template
DayTasks(date_str, page_list, formats) ==
  [k \in 1..(Len(page_list) * Len(formats)) |->
     LET page == page_list[((k - 1) \div Len(formats)) + 1]
         url_format == formats[((k - 1) % Len(formats)) + 1]
     IN  <<Format(url_format, date_str, page), Filename(date_str, page)>>]

\* lines 51-60: one pass of the while loop
generate_download_tasks_loop ==
  /\ task_pc = "loop"
  /\ DateLeq(current_date, end_date)
  /\ tasks' = tasks \o DayTasks(Strftime(current_date), pages, url_formats)
  /\ current_date' = NextDay(current_date)
  /\ UNCHANGED <<start_date, end_date, pages, url_formats, task_pc, jobs,
                 disk, aborted>>
  /\ UNCHANGED notDlVars

\* line 61
generate_download_tasks_return ==
  /\ task_pc = "loop"
  /\ ~DateLeq(current_date, end_date)
  /\ task_pc' = "done"
  /\ UNCHANGED <<start_date, end_date, pages, url_formats, current_date,
                 tasks, jobs, disk, aborted>>
  /\ UNCHANGED notDlVars

NextTasks == generate_download_tasks_loop \/ generate_download_tasks_return

\* lines 74-78 of download_images
DefaultUrlFormats ==
  <<UrlFormat("https://www.moezala.gov.mm/sites/default/files/__MACOSX/Daily%20Waterlevel%20Forecast(",
              ")-E_Page_", ".jpg"),
    UrlFormat("https://www.moezala.gov.mm/sites/default/files/Daily%20Waterlevel%20Forecast(",
              ")-E_Page_", "_0.jpg"),
    UrlFormat("https://www.moezala.gov.mm/sites/default/files/Daily%20Waterlevel%20Forecast(",
              ")-E_Page_", ".jpg")>>

\* the date ranges and page lists given to generate_download_tasks
MaxSpan == 3

\* 27 February 2023, 28 February 2024, 29 September 2024, 30 December 2024
StartOrdinals == {738578, 738944, 739158, 739250}

PageLists == {<<>>, <<1>>, <<1, 2>>, <<2, 1>>}

FormatLists == {SubSeq(DefaultUrlFormats, 1, k) : k \in {0, 1, 3}}

TasksStart(first, last, page_list, formats) ==
  /\ start_date = first
  /\ end_date = last
  /\ pages = page_list
  /\ url_formats = formats
  /\ current_date = first
  /\ tasks = <<>>
  /\ task_pc = "loop"
  /\ jobs = <<>>
  /\ disk = <<>>
  /\ aborted = FALSE
  /\ StatsIdle
  /\ ConfigIdle
  /\ EdgesIdle
  /\ LocationFileIdle
  /\ CopyIdle
  /\ ClassifyIdle

InitTasks ==
  \E first \in StartOrdinals, span \in (-1)..MaxSpan, h1 \in {0, 12},
     h2 \in {0, 12}, page_list \in PageLists, formats \in FormatLists :
    TasksStart(DateTime(first, h1), DateTime(first + span, h2), page_list,
               formats)

SpecTasks == InitTasks /\ [][NextTasks]_vars /\ WF_vars(NextTasks)

\* ------------------------------------------------------------------------
\* download_images(start_date, end_date, pages): the tasks run as jobs of a
\* joblib pool, each job one call of _download_image(url, filename)
\* ------------------------------------------------------------------------
\* the workers of Parallel(n_jobs=-1): one per CPU
Cpus == 3

\* the chunks response.iter_content(1024) yields for the longest body
Chunks == 5

\* the chunks of 1024 bytes the buffer of open(filename, "wb") holds (4096
\* bytes, the block size of the file system)
BufferChunks == 4

\* the bodies of the responses, in chunks: two that fit the buffer and one
\* that does not
BodyLengths == {1, 2, Chunks}

\* U+2705 and U+274C, the marks that open the two printed lines; a printed
\* line is <<code point of its mark, the rest of the line>>
WhiteHeavyCheckMark == 9989

CrossMark == 10060

\* print(f"<mark> <text>")
PrintedLine(mark, text) == <<mark, " " \o text \o "\n">>

RECURSIVE AllTasks(_, _, _, _)
AllTasks(date, last, page_list, formats) ==
  IF DateLeq(date, last)
  THEN DayTasks(Strftime(date), page_list, formats)
         \o AllTasks(NextDay(date), last, page_list, formats)
  ELSE <<>>

\* a job: its response (status, length of the body in chunks), the chunks
\* handed to file.write (offset), the chunks waiting in the buffer of its
\* file object, the position of its file descriptor (pos, in chunks) and
\* the line it printed
NewJob == [st |-> "pending", status |-> 0, length |-> 0, gets |-> 0,
           offset |-> 0, buffer |-> <<>>, pos |-> 0, printed |-> <<>>]

\* lines 80-83: build the tasks and hand them to the pool
download_images ==
  /\ task_pc = "call"
  /\ tasks' = AllTasks(start_date, end_date, pages, DefaultUrlFormats)
  /\ jobs' = [t \in 1..Len(tasks') |-> NewJob]
  /\ task_pc' = "pool"
  /\ UNCHANGED <<start_date, end_date, pages, url_formats, current_date,
                 disk, aborted>>
  /\ UNCHANGED notDlVars

\* the job of task t holds a worker: from the moment the pool hands the
\* task over until _download_image returns or raises
Busy(t) == jobs[t].st \in {"taken", "requesting", "responded", "open",
                           "closed"}

\* the pool hands out the tasks in the order of the list, to at most Cpus
\* workers at a time (n_jobs=-1: one worker per CPU; a machine with fewer
\* CPUs shows the behaviours in which fewer workers are busy)
CanStart(t) ==
  /\ task_pc = "pool"
  /\ ~aborted
  /\ jobs[t].st = "pending"
  /\ \A u \in 1..(t - 1) : jobs[u].st # "pending"
  /\ Cardinality({u \in 1..Len(jobs) : Busy(u)}) < Cpus

\* lines 81-82: a free worker takes delayed(_download_image)(url, filename)
Dispatch(t) ==
  /\ CanStart(t)
  /\ jobs' = [jobs EXCEPT ![t].st = "taken"]
  /\ UNCHANGED <<start_date, end_date, pages, url_formats, current_date,
                 tasks, task_pc, disk, aborted>>
  /\ UNCHANGED notDlVars

\* line 22: the worker calls requests.get(url, stream=True) and waits in it
Get(t) ==
  /\ task_pc = "pool"
  /\ jobs[t].st = "taken"
  /\ jobs' = [jobs EXCEPT ![t].st = "requesting", ![t].gets = @ + 1]
  /\ UNCHANGED <<start_date, end_date, pages, url_formats, current_date,
                 tasks, task_pc, disk, aborted>>
  /\ UNCHANGED notDlVars

\* line 22: requests.get returns a response (its status, its body) or
\* raises; nothing in _download_image catches the exception
Respond(t) ==
  /\ task_pc = "pool"
  /\ jobs[t].st = "requesting"
  /\ \E outcome \in {200, 404, 0}, body \in BodyLengths :
       jobs' = [jobs EXCEPT ![t] =
                  IF outcome = 0
                  THEN [@ EXCEPT !.st = "raised"]
                  ELSE [@ EXCEPT !.st = "responded", !.status = outcome,
                                 !.length = body]]
  /\ UNCHANGED <<start_date, end_date, pages, url_formats, current_date,
                 tasks, task_pc, disk, aborted>>
  /\ UNCHANGED notDlVars

StatusAny(status) == TRUE

\* line 23
StatusOk(status) == status = 200

\* open(filename, "wb"): the file exists and is empty; the new file object
\* starts at position 0 with an empty buffer
Opened(file, t) ==
  [exists |-> TRUE, content |-> <<>>, openers |-> file.openers \cup {t}]

\* lines 23-24 and 28-29: open the file, or report the failure
Check(t) ==
  /\ task_pc = "pool"
  /\ jobs[t].st = "responded"
  /\ IF StatusOk(jobs[t].status)
     THEN /\ disk' = [disk EXCEPT ![tasks[t][2]] = Opened(@, t)]
          /\ jobs' = [jobs EXCEPT ![t].st = "open"]
     ELSE /\ jobs' = [jobs EXCEPT ![t].st = "failed",
                                  ![t].printed =
                                    PrintedLine(CrossMark,
                                                "Failed: " \o tasks[t][1])]
          /\ disk' = disk
  /\ UNCHANGED <<start_date, end_date, pages, url_formats, current_date,
                 tasks, task_pc, aborted>>
  /\ UNCHANGED notDlVars

\* the content after the chunks are written at position pos of the file:
\* a position past the end leaves a hole of zero bytes
Written(content, pos, chunks) ==
  [k \in 1..(IF pos + Len(chunks) > Len(content)
             THEN pos + Len(chunks) ELSE Len(content))
     |-> IF k > pos /\ k <= pos + Len(chunks) THEN chunks[k - pos]
         ELSE IF k <= Len(content) THEN content[k]
         ELSE <<0, 0>>]

\* the file after the buffer of task t is flushed to it
Flushed(file, t) ==
  IF jobs[t].buffer = <<>> THEN file
  ELSE [file EXCEPT !.content = Written(@, jobs[t].pos, jobs[t].buffer)]

\* lines 25-26: file.write(chunk) keeps the chunk in the buffer when it
\* fits; otherwise the buffer goes to the disk first and the chunk starts
\* the next buffer
Write(t) ==
  /\ task_pc = "pool"
  /\ jobs[t].st = "open"
  /\ jobs[t].offset < jobs[t].length
  /\ LET chunk == <<t, jobs[t].offset + 1>> IN
       IF Len(jobs[t].buffer) + 1 <= BufferChunks
       THEN /\ jobs' = [jobs EXCEPT ![t].offset = @ + 1,
                                    ![t].buffer = Append(@, chunk)]
            /\ disk' = disk
       ELSE /\ disk' = [disk EXCEPT ![tasks[t][2]] = Flushed(@, t)]
            /\ jobs' = [jobs EXCEPT ![t].offset = @ + 1,
                                    ![t].pos = @ + Len(jobs[t].buffer),
                                    ![t].buffer = <<chunk>>]
  /\ UNCHANGED <<start_date, end_date, pages, url_formats, current_date,
                 tasks, task_pc, aborted>>
  /\ UNCHANGED notDlVars

\* line 24: leaving the with block closes the file, which flushes its
\* buffer to the disk; nothing is printed yet
Close(t) ==
  /\ task_pc = "pool"
  /\ jobs[t].st = "open"
  /\ jobs[t].offset = jobs[t].length
  /\ disk' = [disk EXCEPT ![tasks[t][2]] = Flushed(@, t)]
  /\ jobs' = [jobs EXCEPT ![t].st = "closed",
                          ![t].pos = @ + Len(jobs[t].buffer),
                          ![t].buffer = <<>>]
  /\ UNCHANGED <<start_date, end_date, pages, url_formats, current_date,
                 tasks, task_pc, aborted>>
  /\ UNCHANGED notDlVars

\* line 27: the success is printed and the job returns
PrintDownloaded(t) ==
  /\ task_pc = "pool"
  /\ jobs[t].st = "closed"
  /\ jobs' = [jobs EXCEPT ![t].st = "ok",
                          ![t].printed =
                            PrintedLine(WhiteHeavyCheckMark,
                                        "Downloaded: " \o tasks[t][2])]
  /\ UNCHANGED <<start_date, end_date, pages, url_formats, current_date,
                 tasks, task_pc, disk, aborted>>
  /\ UNCHANGED notDlVars

\* the pool learns that a job raised: it hands out no further task
Abort ==
  /\ task_pc = "pool"
  /\ ~aborted
  /\ \E t \in 1..Len(jobs) : jobs[t].st = "raised"
  /\ aborted' = TRUE
  /\ UNCHANGED <<start_date, end_date, pages, url_formats, current_date,
                 tasks, task_pc, jobs, disk>>
  /\ UNCHANGED notDlVars

\* an aborting pool ends the workers still running, wherever they are: one
\* that waits in requests.get has sent its GET and gets no answer, the
\* chunks in the buffer of a killed worker never reach the disk, the file
\* of a worker killed between the end of its with block and its print stays
\* whole.  A worker not yet ended goes on with its job.
Kill(t) ==
  /\ task_pc = "pool"
  /\ aborted
  /\ Busy(t)
  /\ jobs' = [jobs EXCEPT ![t].st = "killed", ![t].buffer = <<>>]
  /\ UNCHANGED <<start_date, end_date, pages, url_formats, current_date,
                 tasks, task_pc, disk, aborted>>
  /\ UNCHANGED notDlVars

\* line 83 returns once every job has returned
PoolReturn ==
  /\ task_pc = "pool"
  /\ \A t \in 1..Len(jobs) : jobs[t].st \in {"ok", "failed"}
  /\ task_pc' = "done"
  /\ UNCHANGED <<start_date, end_date, pages, url_formats, current_date,
                 tasks, jobs, disk, aborted>>
  /\ UNCHANGED notDlVars

\* line 83 re-raises the exception of a job
PoolRaise ==
  /\ task_pc = "pool"
  /\ aborted
  /\ \A t \in 1..Len(jobs) : ~Busy(t)
  /\ task_pc' = "raised"
  /\ UNCHANGED <<start_date, end_date, pages, url_formats, current_date,
                 tasks, jobs, disk, aborted>>
  /\ UNCHANGED notDlVars

NextDownload ==
  \/ download_images
  \/ \E t \in 1..Len(jobs) : Dispatch(t)
  \/ \E t \in 1..Len(jobs) : Get(t)
  \/ \E t \in 1..Len(jobs) : Respond(t)
  \/ \E t \in 1..Len(jobs) : Check(t)
  \/ \E t \in 1..Len(jobs) : Write(t)
  \/ \E t \in 1..Len(jobs) : Close(t)
  \/ \E t \in 1..Len(jobs) : PrintDownloaded(t)
  \/ \E t \in 1..Len(jobs) : Kill(t)
  \/ Abort
  \/ PoolReturn
  \/ PoolRaise

\* the batches: one date, no page, page 1 or page 2; the working directory
\* empty or holding the files of an earlier batch
NoImage == [exists |-> FALSE, content |-> <<>>, openers |-> {}]

StaleImage == [exists |-> TRUE, content |-> <<<<0, 1>>>>, openers |-> {}]

InitDownload ==
  \E first \in {739158}, span \in {-1, 0}, page_list \in {<<>>, <<1>>, <<2>>},
     stale \in BOOLEAN :
    /\ start_date = DateTime(first, 0)
    /\ end_date = DateTime(first + span, 0)
    /\ pages = page_list
    /\ url_formats = DefaultUrlFormats
    /\ current_date = start_date
    /\ tasks = <<>>
    /\ task_pc = "call"
    /\ jobs = <<>>
    /\ disk = [f \in {Filename(Strftime(start_date), page) : page \in 1..2}
                 |-> IF stale THEN StaleImage ELSE NoImage]
    /\ aborted = FALSE
    /\ StatsIdle
    /\ ConfigIdle
    /\ EdgesIdle
    /\ LocationFileIdle
    /\ CopyIdle
    /\ ClassifyIdle

SpecDownload == InitDownload /\ [][NextDownload]_vars

\* ------------------------------------------------------------------------
\* copy_settings(PATH)
\* ------------------------------------------------------------------------
\* "/".join(parts)
RECURSIVE Join(_)
Join(parts) ==
  IF parts = <<>> THEN ""
  ELSE IF Len(parts) = 1 THEN parts[1]
  ELSE parts[1] \o "/" \o Join(Tail(parts))

\* the working directory of the process
Cwd == "/home/user/"

\* the directory the operating system takes a path for: a path that begins
\* with "/" (joined from no part, or from parts the first of which is
\* empty, and then "/") is taken from the root, any other from the working
\* directory
OsPath(parts, path) ==
  IF parts = <<>> \/ parts[1] = "" THEN path ELSE Cwd \o path

\* line 372: PATH_list[-2]
config_dir(parts) == parts[Len(parts) - 1]

\* line 373: "/".join(PATH_list[:-2]) + "/"
base_path(parts) == Join(SubSeq(parts, 1, Len(parts) - 2)) \o "/"

\* line 374: "/".join(PATH_list[:-1]) + "/"
original_path(parts) == Join(SubSeq(parts, 1, Len(parts) - 1)) \o "/"

\* line 375 and line 381: f"{copy_path}{i}/"
copy_path(parts, n) ==
  base_path(parts) \o config_dir(parts) \o "_copy" \o ToString(n) \o "/"

OriginalDir(parts) ==
  OsPath(SubSeq(parts, 1, Len(parts) - 1), original_path(parts))

CopyDir(parts, n) ==
  OsPath(SubSeq(parts, 1, Len(parts) - 2), copy_path(parts, n))

Absent == "absent"

\* os.path.exists
Exists(path) == path \in DOMAIN tree /\ tree[path] # Absent

\* the calls made in a row
MaxCopies == 3

\* lines 370-377
copy_settings ==
  /\ copy_pc = "ready"
  /\ copy_err = ""
  /\ copy_calls < MaxCopies
  /\ IF Len(PATH_list) < 2
     THEN /\ copy_err' = "IndexError"
          /\ UNCHANGED <<copy_i, copy_pc>>
     ELSE /\ copy_i' = 1
          /\ copy_pc' = "loop"
          /\ copy_err' = copy_err
  /\ UNCHANGED <<PATH_list, tree, copy_calls>>
  /\ UNCHANGED notCopyVars

\* lines 378-379
copy_settings_loop ==
  /\ copy_pc = "loop"
  /\ Exists(CopyDir(PATH_list, copy_i))
  /\ copy_i' = copy_i + 1
  /\ UNCHANGED <<PATH_list, tree, copy_pc, copy_calls, copy_err>>
  /\ UNCHANGED notCopyVars

\* lines 381-382: shutil.copytree(original_path, copy_path)
copy_settings_copytree ==
  /\ copy_pc = "loop"
  /\ ~Exists(CopyDir(PATH_list, copy_i))
  /\ IF ~Exists(OriginalDir(PATH_list))
     THEN /\ copy_err' = "FileNotFoundError"
          /\ UNCHANGED <<tree, copy_calls>>
     ELSE /\ tree' = [tree EXCEPT ![CopyDir(PATH_list, copy_i)] =
                        tree[OriginalDir(PATH_list)]]
          /\ copy_calls' = copy_calls + 1
          /\ copy_err' = copy_err
  /\ copy_pc' = "ready"
  /\ UNCHANGED <<PATH_list, copy_i>>
  /\ UNCHANGED notCopyVars

NextCopy == copy_settings \/ copy_settings_loop \/ copy_settings_copytree

\* the PATH arguments, split: "sim/config/", "config/", "/srv/config/" and
\* "config"
PathLists ==
  {<<"sim", "config", "">>, <<"config", "">>, <<"", "srv", "config", "">>,
   <<"config">>}

\* the copies an earlier session left
MaxOld == 2

InitCopy ==
  \E parts \in PathLists, old \in SUBSET (1..MaxOld), present \in BOOLEAN :
    /\ PATH_list = parts
    /\ tree =
         IF Len(parts) < 2 THEN <<>>
         ELSE [path \in {OriginalDir(parts)} \cup
                        {CopyDir(parts, n) : n \in 1..(MaxOld + MaxCopies)} |->
                 IF path = OriginalDir(parts)
                 THEN IF present THEN "settings" ELSE Absent
                 ELSE IF \E n \in old : path = CopyDir(parts, n)
                 THEN "old settings"
                 ELSE Absent]
    /\ copy_i = 0
    /\ copy_pc = "ready"
    /\ copy_calls = 0
    /\ copy_err = ""
    /\ StatsIdle
    /\ ConfigIdle
    /\ EdgesIdle
    /\ LocationFileIdle
    /\ DownloadIdle
    /\ ClassifyIdle

SpecCopy == InitCopy /\ [][NextCopy]_vars

\* ------------------------------------------------------------------------
\* classify_water_level(level, min_level, max_level, x)
\* (src/water_classification.py)
\* ------------------------------------------------------------------------
\* round(y) of a float y: the nearest integer, ties to even
PyRound(y) == FTrunc(FRint(y))

classify_unguarded(l, lo, hi, n) ==
  PyRound(FMul(FDivInt(FFromInt(l - lo), hi - lo), FFromInt(n)))

\* lines 15-18, for max_level # min_level
classify_water_level(l, lo, hi, n) ==
  IF l < lo
  THEN 0
  ELSE PyRound(FMul(FDivInt(FFromInt(l - lo), hi - lo), FFromInt(n)))

\* one call: the division by max_level - min_level = 0 raises
Classify ==
  /\ class_pc = "call"
  /\ IF level_arg >= min_level /\ max_level = min_level
     THEN /\ class_pc' = "raised"
          /\ water_class' = water_class
     ELSE /\ class_pc' = "done"
          /\ water_class' =
               classify_water_level(level_arg, min_level, max_level, x_arg)
  /\ UNCHANGED <<level_arg, min_level, max_level, x_arg>>
  /\ UNCHANGED notClassVars

\* the widest span max_level - min_level and the largest class count
MaxRange == 7

MaxClasses == 5

InitClassify ==
  \E lo \in {-2, 0, 3}, range \in 0..MaxRange, n \in 0..MaxClasses :
    \E l \in (lo - 2)..(lo + range + 1) :
      /\ level_arg = l
      /\ min_level = lo
      /\ max_level = lo + range
      /\ x_arg = n
      /\ water_class = 0
      /\ class_pc = "call"
      /\ StatsIdle
      /\ ConfigIdle
      /\ EdgesIdle
      /\ LocationFileIdle
      /\ DownloadIdle
      /\ CopyIdle

SpecClassify == InitClassify /\ [][Classify]_vars

\* ------------------------------------------------------------------------
\* Properties of get_statistics
\* ------------------------------------------------------------------------
Run(k) == fs[InPath(k)]

Out == fs[OutPath]

OutCell(name, r) == Out.cell[ColIndex(Out, name)][r]

\* run k's value of column name at row r, an absent row reading as empty
RunCell(k, name, r) ==
  IF r <= Run(k).nrows THEN Run(k).cell[ColIndex(Run(k), name)][r] ELSE FNaN

RECURSIVE SumRuns(_, _, _)
SumRuns(name, r, n) ==
  IF n = 1 THEN RunCell(1, name, r)
  ELSE FAdd(SumRuns(name, r, n - 1), RunCell(n, name, r))

RECURSIVE SqSumRuns(_, _, _)
SqSumRuns(name, r, n) ==
  IF n = 1 THEN FMul(RunCell(1, name, r), RunCell(1, name, r))
  ELSE FAdd(SqSumRuns(name, r, n - 1),
            FMul(RunCell(n, name, r), RunCell(n, name, r)))

RawMean(name, r) == FDivInt(SumRuns(name, r, N), N)

RawVar(name, r) ==
  FSub(FDivInt(SqSumRuns(name, r, N), N),
       FMul(RawMean(name, r), RawMean(name, r)))

NumericNames(t) == {t.cols[j] : j \in {h \in 1..Len(t.cols) : IsNumericCol(t, h)}}

IdNames(t) == {t.cols[j] : j \in {h \in 1..Len(t.cols) : ~IsNumericCol(t, h)}}

IsInt(x) == x.k = "num" /\ FFromInt(FTrunc(x)) = x

RECURSIVE IntSumRuns(_, _, _)
IntSumRuns(name, r, n) ==
  IF n = 0 THEN 0
  ELSE IntSumRuns(name, r, n - 1) + FTrunc(RunCell(n, name, r))

\* a / b rounded to the nearest integer, ties to even (a >= 0, b > 0)
RoundHalfEvenDiv(a, b) ==
  LET q == a \div b
      m == a % b
  IN  IF 2 * m > b \/ (2 * m = b /\ q % 2 = 1) THEN q + 1 ELSE q

\* C1: for N >= 1 the value written under a numeric column's own name at row
\* r is the sum of the N runs' values there, divided by N and rounded to
\* decimal_places; for whole-number values that is the exact quotient rounded
\* to decimal_places digits, so 1, 2, 3 over three runs give 2.00.
C1_MeanIsRoundedAverage ==
  (pc = "done" /\ N >= 1) =>
    \A name \in NumericNames(Run(1)) : \A r \in 1..Run(1).nrows :
      /\ HasCol(Out, name)
      /\ OutCell(name, r) = NpRound(RawMean(name, r), decimal_places)
      /\ (\A k \in 1..N : IsInt(RunCell(k, name, r))) =>
           OutCell(name, r) =
             FDec(RoundHalfEvenDiv(IntSumRuns(name, r, N) * 10^decimal_places,
                                   N),
                  decimal_places)

C1_Witness ==
  /\ pc = "done"
  /\ N = 3
  /\ decimal_places = DefaultDecimalPlaces
  /\ Run(1).cols = <<"a">>
  /\ \A k \in 1..3 : RunCell(k, "a", 1) = FDec(k, 0)
  /\ OutCell("a", 1) = FDec(200, 2)

IdenticalConstantRuns ==
  /\ \A k \in 1..N : Run(k) = Run(1)
  /\ \A name \in NumericNames(Run(1)) : \A r \in 1..Run(1).nrows :
       /\ RunCell(1, name, r).k = "num"
       /\ RunCell(1, name, r) = RunCell(1, name, 1)

\* C2: when the N runs are identical and every numeric column holds one
\* constant number, every "<column> (std)" value is exactly 0 after rounding.
C2_IdenticalRunsStdZero ==
  (pc = "done" /\ N >= 1 /\ IdenticalConstantRuns) =>
    \A name \in NumericNames(Run(1)) : \A r \in 1..Run(1).nrows :
      OutCell(StdName(name), r) = FZero

\* C3 as stated: for every input, no std value is negative or NaN.
C3_StdNeverNaN ==
  pc = "done" =>
    \A name \in NumericNames(Run(1)) : \A r \in 1..Run(1).nrows :
      /\ OutCell(StdName(name), r).k = "num"
      /\ OutCell(StdName(name), r).s = 0

AllRunsHaveNumber(name, r) == \A k \in 1..N : RunCell(k, name, r).k = "num"

\* C3, amended: for N >= 1 and a cell in which every run holds a number, the
\* std is sqrt(max(0, sum_sq/N - mean^2)) from the unrounded mean, rounded;
\* it is 0 when that variance is below 0, never negative and never NaN.  A
\* cell that is empty or missing in some run gives NaN.
C3_StdIsClampedRoot ==
  (pc = "done" /\ N >= 1) =>
    \A name \in NumericNames(Run(1)) : \A r \in 1..Run(1).nrows :
      LET std == OutCell(StdName(name), r)
          var == RawVar(name, r)
      IN  IF AllRunsHaveNumber(name, r)
          THEN /\ std = NpRound(FSqrt(IF FLess(var, FZero) THEN FZero
                                                            ELSE var),
                                decimal_places)
               /\ FLess(var, FZero) => std = FZero
               /\ std.k = "num" /\ std.s = 0
          ELSE std.k = "nan"

C3_Witness ==
  /\ pc = "done"
  /\ N >= 1
  /\ \E name \in NumericNames(Run(1)) : \E r \in 1..Run(1).nrows :
       /\ AllRunsHaveNumber(name, r)
       /\ FLess(RawVar(name, r), FZero)
       /\ OutCell(StdName(name), r) = FZero

\* C4: the written table's columns are run 1's non-numeric columns with run
\* 1's values, then run 1's numeric columns under their own names, then the
\* same names with " (std)" appended, each group in run 1's order, and
\* nothing else.
C4_OutputColumns ==
  pc = "done" =>
    LET ids  == SelectDtypes(Run(1), FALSE)
        nums == SelectDtypes(Run(1), TRUE)
    IN  /\ Out.cols = ids \o nums \o [j \in 1..Len(nums) |-> StdName(nums[j])]
        /\ \A j \in 1..Len(ids) :
             Out.cell[j] = Run(1).cell[ColIndex(Run(1), ids[j])]
        /\ Len(Out.cell) = Len(Out.cols)

C4_Witness ==
  /\ pc = "done"
  /\ Run(1).cols = <<"a", "Date", "b">>
  /\ Out.cols = <<"Date", "a", "b", "a (std)", "b (std)">>
  /\ Out.cell[1] = Run(1).cell[2]

\* C5: the written table has run 1's rows in run 1's order: row k carries
\* run 1's identifier values of row k and the mean of the runs' rows k, by
\* position.
C5_RowsFollowRunOne ==
  pc = "done" =>
    /\ Out.nrows = Run(1).nrows
    /\ \A j \in 1..Len(Out.cols) : Len(Out.cell[j]) = Run(1).nrows
    /\ \A name \in IdNames(Run(1)) : \A r \in 1..Run(1).nrows :
         OutCell(name, r) = RunCell(1, name, r)
    /\ N >= 1 =>
         \A name \in NumericNames(Run(1)) : \A r \in 1..Run(1).nrows :
           OutCell(name, r) = NpRound(RawMean(name, r), decimal_places)

C5_Witness ==
  /\ pc = "done"
  /\ N >= 2
  /\ Run(1).nrows = 2
  /\ Run(2).nrows = 3
  /\ Out.nrows = 2
  /\ IdNames(Run(1)) # {}
  /\ NumericNames(Run(1)) # {}

\* C6: get_statistics reads exactly {stem}_1.csv .. {stem}_N.csv, once each
\* and in increasing order, then writes exactly {stem}.csv, for every N
\* including 1 and 0.
C6_ReadsExactlyOneToN ==
  pc = "done" =>
    /\ reads = [k \in 1..N |-> InPath(k)]
    /\ writes = <<OutPath>>

MissingRun == \E k \in 1..N : ~Run(k).exists

\* run k's column set differs from run 1's: a column missing, an extra
\* column, or a column of a different type
SchemaMismatch ==
  /\ Run(1).exists
  /\ \E k \in 2..N :
       /\ Run(k).exists
       /\ \/ NumericNames(Run(k)) # NumericNames(Run(1))
          \/ IdNames(Run(k)) # IdNames(Run(1))

\* run k lacks one of run 1's numeric columns or holds text in it (text
\* that read_csv keeps as text, not a marker of a missing value)
NumericColumnLost ==
  /\ Run(1).exists
  /\ \E k \in 2..N :
       /\ Run(k).exists
       /\ NumericNames(Run(1)) \ NumericNames(Run(k)) # {}

Ended == pc \in {"done", "error"}

NoPartialResult ==
  /\ pc = "error"
  /\ writes = <<>>
  /\ Out \in {NoFile, StaleFrame}
  /\ \A a, b \in 1..Len(reads) : reads[a] = reads[b] => a = b

\* C7 as stated: a missing run or any column-set difference ends the call in
\* an error with {stem}.csv untouched and no file read twice.
C7_AnyMismatchFails ==
  (Ended /\ (MissingRun \/ SchemaMismatch)) => NoPartialResult

\* C7, amended: a missing run, or a run that lacks one of run 1's numeric
\* columns or holds text other than a missing-value marker in one, ends the
\* call in an error with {stem}.csv untouched and no file read twice; an
\* extra column, a difference in the non-numeric columns only, or a numeric
\* column of missing-value markers is ignored and {stem}.csv is written.
C7_LostInputFails ==
  /\ (Ended /\ (MissingRun \/ NumericColumnLost)) => NoPartialResult
  /\ (Ended /\ N >= 1 /\ ~MissingRun /\ ~NumericColumnLost) => pc = "done"
  /\ pc = "error" => NoPartialResult

C7_Witness ==
  /\ pc = "error"
  /\ err \in {"KeyError", "TypeError", "EmptyDataError"}
  /\ ~MissingRun
  /\ Out = StaleFrame

\* ------------------------------------------------------------------------
\* Properties of create_flood_level_csv
\* ------------------------------------------------------------------------
Registry == LocationsList(cfs)

FloodLevelDone == cerr = "" /\ flood_level_df.exists

\* the base classification value of day r, as an integer
BaseLevel(r) ==
  FTrunc(df_arg.cell[ColIndex(df_arg, "Water Level Classification")][r])

\* the one category create_flood_level_csv gives a location
Category(name) ==
  LET low == Lower(name)
      has(word) == \E a \in 1..(Len(low) - Len(word) + 1) :
                     \A b \in 1..Len(word) : low[a + b - 1] = word[b]
  IN  IF has(temple) THEN "temple"
      ELSE IF has(camp) THEN "camp"
      ELSE IF has(town) THEN "town"
      ELSE "other"

NonNegative(n) == IF n < 0 THEN 0 ELSE n

ExpectedLevel(category, v) ==
  CASE category = "temple" -> 0
    [] category = "camp" -> NonNegative(v - 2)
    [] category = "town" -> NonNegative(v - 1)
    [] OTHER -> v

LevelColumn(table, name) == table.cell[ColIndex(table, JoinChars(name))]

\* C8: in the table create_flood_level_csv builds (returned and written to
\* input_csv/flood_level.csv), for every day with base classification v a
\* camp location's column holds max(0, v - 2), a town location's column
\* max(0, v - 1), a temple location's column 0 and any other location's
\* column v.
C8_CategoricalOffsets ==
  FloodLevelDone =>
    /\ cfs[FloodLevelPath] = flood_level_df
    /\ LET registry == Registry IN
       \A k \in 1..Len(registry) :
         LET category == Category(registry[k])
             column == LevelColumn(flood_level_df, registry[k])
         IN  \A r \in 1..df_arg.nrows :
               column[r] = FFromInt(ExpectedLevel(category, BaseLevel(r)))

\* a finished call on a registry with a camp, a town, a temple and another
\* location, on a day of classification 3: columns 1, 2, 0 and 3
C8_Witness ==
  /\ FloodLevelDone
  /\ \A c \in {"camp", "town", "temple", "other"} :
       \E k \in 1..Len(Registry) : Category(Registry[k]) = c
  /\ \E r \in 1..df_arg.nrows :
       /\ BaseLevel(r) = 3
       /\ \A k \in 1..Len(Registry) :
            FTrunc(LevelColumn(flood_level_df, Registry[k])[r])
              = (CASE Category(Registry[k]) = "camp" -> 1
                   [] Category(Registry[k]) = "town" -> 2
                   [] Category(Registry[k]) = "temple" -> 0
                   [] OTHER -> 3)

\* ------------------------------------------------------------------------
\* Properties of create_source_data_files
\* ------------------------------------------------------------------------
SourceDataDone ==
  /\ cerr = ""
  /\ cwrites # <<>>
  /\ cwrites[Len(cwrites)] = RefugeesPath

NameHas(word, name) == Contains(word, Lower(name))

\* the number of registry locations whose name contains word
CountWith(word) ==
  Cardinality({k \in 1..Len(Registry) : NameHas(word, Registry[k])})

\* the hundredths p of the decimal fraction p / 100 that a float was read
\* from
Hundredths(x) == CHOOSE p \in 0..100 : FDec(p, 2) = x

\* floor(n * (p / 100) / c) in exact arithmetic
Floor(n, p, c) == (n * p) \div (100 * c)

SourceFile(name) == cfs[SourceDataPath(name)]

\* the file of a location holds the three template days with these values
HoldsRows(file, v) ==
  /\ file.exists
  /\ file.nrows = 3
  /\ file.cell = <<[k \in 1..3 |-> Str(TemplateDays[k])],
                   [k \in 1..3 |-> FFromInt(v[k])]>>

\* C9: with C >= 1 camp locations, the file create_source_data_files writes
\* for every camp location holds 0 on 2024-09-08, floor(D * f / C) on
\* 2024-09-14 and floor(second row * fraction_stays_in_camp) on 2024-09-30.
C9_CampRowsAreFloors ==
  SourceDataDone =>
    \A k \in 1..Len(Registry) : NameHas(camp, Registry[k]) =>
      LET second == Floor(displacement, Hundredths(fraction_displaced_camp),
                          CountWith(camp))
      IN  HoldsRows(SourceFile(Registry[k]),
                    <<0, second,
                      Floor(second, Hundredths(fraction_stays_in_camp), 1)>>)

\* C10: after create_source_data_files every temple location has a file,
\* written by the call, whose second row is floor(D * (1 - f) / T) for the
\* T >= 1 temple locations of the registry.
C10_TempleFilesWritten ==
  SourceDataDone =>
    \A k \in 1..Len(Registry) : NameHas(temple, Registry[k]) =>
      /\ SourceFile(Registry[k]).exists
      /\ SourceFile(Registry[k]) # StaleOutput
      /\ FTrunc(SourceFile(Registry[k]).cell[2][2])
           = Floor(displacement, 100 - Hundredths(fraction_displaced_camp),
                   CountWith(temple))

\* a step that is the call of create_source_data_files
SourceDataCall == create_source_data_files

\* the registry lacks a camp, a temple or a flood_zone location
LacksCategory ==
  \/ CountWith(camp) = 0
  \/ CountWith(temple) = 0
  \/ CountWith(flood_zone) = 0

\* C11: called on a registry with zero camp locations, zero temple
\* locations or zero flood_zone locations, create_source_data_files ends in
\* a ZeroDivisionError and writes nothing: no file under PATH is created or
\* modified.
C11_ZeroDivisionWritesNothing ==
  [][(SourceDataCall /\ cfs[LocationsPath].exists /\ LacksCategory) =>
       /\ cerr' = "ZeroDivisionError"
       /\ cwrites' = cwrites
       /\ cfs' = cfs]_vars

\* the call ended in the error on a registry with temples and flood zones
\* but no camp, and the files an earlier run left are still in place
C11_Witness ==
  /\ cerr = "ZeroDivisionError"
  /\ cwrites = <<>>
  /\ CountWith(camp) = 0
  /\ CountWith(temple) > 0
  /\ CountWith(flood_zone) > 0
  /\ cfs[RefugeesPath] = StaleOutput
  /\ \A k \in 1..Len(Universe) : cfs[SourceDataPath(Universe[k])] = StaleOutput

\* ------------------------------------------------------------------------
\* Properties of create_flood_level_csv: the guarded columns
\* ------------------------------------------------------------------------
\* a step that is the call of create_flood_level_csv
FloodLevelCall == create_flood_level_csv

LacksDate == ~HasCol(df_arg, "Date")

LacksLevel == ~HasCol(df_arg, "Water Level Classification")

\* the assertion error the call must end in: it names "Date" when that
\* column is missing, else "Water Level Classification"
NamesMissingColumn(e) ==
  IF LacksDate
  THEN e = "AssertionError: Date column is missing in the DataFrame"
  ELSE e = "AssertionError: Water Level Classification column is missing in the DataFrame"

\* C18 as stated: whenever the table lacks "Date" or "Water Level
\* Classification", the call ends in an assertion error naming the missing
\* column and input_csv/flood_level.csv is neither created nor modified.
C18_MissingColumnAsserts ==
  [][(FloodLevelCall /\ (LacksDate \/ LacksLevel)) =>
       /\ NamesMissingColumn(cerr')
       /\ cfs'[FloodLevelPath] = cfs[FloodLevelPath]]_vars

\* C18, amended: the assertion error is the outcome when the registry
\* input_csv/locations.csv can be read; without the registry the call ends
\* in FileNotFoundError before the columns are looked at. In both cases no
\* file is created or modified.
C18_MissingColumnAssertsGivenRegistry ==
  [][(FloodLevelCall /\ (LacksDate \/ LacksLevel)) =>
       /\ IF cfs[LocationsPath].exists
          THEN NamesMissingColumn(cerr')
          ELSE cerr' = "FileNotFoundError"
       /\ cfs' = cfs
       /\ cwrites' = cwrites]_vars

\* the call ended in the assertion error about the classification column
\* and the flood_level.csv of an earlier run is still in place
C18_Witness ==
  /\ cerr = "AssertionError: Water Level Classification column is missing in the DataFrame"
  /\ HasCol(df_arg, "Date")
  /\ LacksLevel
  /\ cwrites = <<>>
  /\ cfs[FloodLevelPath] = StaleOutput

\* ------------------------------------------------------------------------
\* Properties of the files read and written
\* ------------------------------------------------------------------------
WasWritten(path) == \E k \in 1..Len(cwrites) : cwrites[k] = path

\* the output files of a generator function
Outputs(fn) ==
  IF fn = "create_flood_level_csv" THEN {FloodLevelPath}
  ELSE IF fn = "create_floodawareness_csv" THEN {FloodAwarenessPath}
  ELSE IF fn = "create_data_layout" THEN {DataLayoutPath}
  ELSE {RefugeesPath} \cup
       {SourceDataPath(Registry[k]) : k \in 1..Len(Registry)}

InputPaths == {InPath(k) : k \in 1..(MaxN + 1)}

\* C17: no step of get_statistics changes an input file {stem}_i.csv, the
\* only file it changes is {stem}.csv, which is none of the input paths; no
\* step of the four generator functions changes input_csv/locations.csv,
\* and a file a step changes is an output file of the one function called.
C17_InputsUntouched ==
  [][/\ \A p \in DOMAIN fs :
          fs'[p] # fs[p] => (p = OutPath /\ p \notin InputPaths)
     /\ \A p \in DOMAIN fs \cap InputPaths : fs'[p] = fs[p]
     /\ \A p \in DOMAIN cfs :
          cfs'[p] # cfs[p] =>
            /\ p # LocationsPath
            /\ \E fn \in calls : calls' = calls \ {fn} /\ p \in Outputs(fn)]_vars

\* the four generator functions have run on a registry of five locations
\* over the files of an earlier run: each output was rewritten and the
\* registry is as it was
C17_Witness ==
  /\ cerr = ""
  /\ calls = {}
  /\ WasWritten(FloodLevelPath)
  /\ WasWritten(FloodAwarenessPath)
  /\ WasWritten(RefugeesPath)
  /\ WasWritten(DataLayoutPath)
  /\ cfs[FloodLevelPath] # StaleOutput
  /\ cfs[FloodAwarenessPath] # StaleOutput
  /\ cfs[DataLayoutPath] # StaleOutput
  /\ cfs[SourceDataPath(Hub_1)] = StaleOutput
  /\ cfs[LocationsPath]
       = RegistryFrame(<<Town_1, Camp_1, Flood_zone_1, Temple_1, CAMP_2>>)

\* C20: once create_source_data_files and create_data_layout have both run
\* on a registry, every file name in the second column of
\* source_data/data_layout.csv names a file that exists in source_data/.
C20_LayoutFilesExist ==
  (cerr = "" /\ WasWritten(RefugeesPath) /\ WasWritten(DataLayoutPath)) =>
    LET layout == cfs[DataLayoutPath]
    IN  \A r \in 1..layout.nrows :
          cfs[PATH \o "source_data/" \o layout.cell[2][r].t].exists

\* ------------------------------------------------------------------------
\* Properties of _create_camp_and_floodzone_locations
\* ------------------------------------------------------------------------
\* the number refugees.csv holds
RefugeeNumbers == FTrunc(cfs[RefugeesPath].cell[2][1])

\* C21: after create_source_data_files on a registry with C >= 1 camps,
\* T >= 1 temples and at least one flood zone, C * displacement_camp +
\* T * displacement_temple is at most the displacement written to
\* refugees.csv, and flood_zone count * floodzone_population is at most the
\* population.
C21_FiguresWithinTotals ==
  SourceDataDone =>
    /\ CountWith(camp) >= 1
    /\ CountWith(temple) >= 1
    /\ CountWith(flood_zone) >= 1
    /\ RefugeeNumbers = displacement
    /\ CountWith(camp) * displacement_camp(Registry)
         + CountWith(temple) * displacement_temple(Registry) <= RefugeeNumbers
    /\ CountWith(flood_zone) * floodzone_population(Registry) <= population

\* the call has run on two camps and a temple with 7 displaced at fraction
\* 0.93: three to each camp and none to the temple, one fewer than the
\* total
C21_Witness ==
  /\ SourceDataDone
  /\ CountWith(camp) = 2
  /\ CountWith(temple) = 1
  /\ displacement = 7
  /\ fraction_displaced_camp = FDec(93, 2)
  /\ displacement_camp(Registry) = 3
  /\ displacement_temple(Registry) = 0
  /\ population = 10

\* ------------------------------------------------------------------------
\* Properties of create_flood_level_csv: the precedence of the rules
\* ------------------------------------------------------------------------
\* C22: in the table create_flood_level_csv builds, a location whose
\* lower-cased name contains "temple" holds 0 whatever else the name
\* contains; otherwise one containing "camp" holds max(0, v - 2), also when
\* it contains "town"; otherwise one containing "town" holds max(0, v - 1);
\* any other holds v: exactly one rule per location.
C22_TempleThenCampThenTown ==
  FloodLevelDone =>
    \A k \in 1..Len(Registry) :
      LET name == Registry[k]
          column == LevelColumn(flood_level_df, name)
      IN  \A r \in 1..df_arg.nrows :
            LET v == BaseLevel(r)
                x == FTrunc(column[r])
            IN  /\ column[r] = FFromInt(x)
                /\ NameHas(temple, name) => x = 0
                /\ (~NameHas(temple, name) /\ NameHas(camp, name))
                     => x = NonNegative(v - 2)
                /\ (~NameHas(temple, name) /\ ~NameHas(camp, name)
                      /\ NameHas(town, name)) => x = NonNegative(v - 1)
                /\ (~NameHas(temple, name) /\ ~NameHas(camp, name)
                      /\ ~NameHas(town, name)) => x = v

\* a finished call on Temple_camp_1, Town_camp_1 and CAMP_TEMPLE_TOWN on a
\* day of classification 3: columns 0, 1 and 0
C22_Witness ==
  /\ FloodLevelDone
  /\ Registry = <<Temple_camp_1, Town_camp_1, CAMP_TEMPLE_TOWN>>
  /\ \E r \in 1..df_arg.nrows :
       /\ BaseLevel(r) = 3
       /\ FTrunc(LevelColumn(flood_level_df, Temple_camp_1)[r]) = 0
       /\ FTrunc(LevelColumn(flood_level_df, Town_camp_1)[r]) = 1
       /\ FTrunc(LevelColumn(flood_level_df, CAMP_TEMPLE_TOWN)[r]) = 0

\* ------------------------------------------------------------------------
\* Properties of create_flood_level_csv: the shape of the table
\* ------------------------------------------------------------------------
\* C23: the table create_flood_level_csv builds from n days has n rows, the
\* columns "#Day" and then one per registry location in registry order;
\* "#Day" holds 0, 1, ..., n-1 and every location's column holds n values,
\* the one of row k derived from the k-th classification value.
C23_OneRowPerDayOneColumnPerLocation ==
  FloodLevelDone =>
    LET n == df_arg.nrows
        registry == Registry
    IN  /\ flood_level_df.nrows = n
        /\ Len(flood_level_df.cols) = Len(registry) + 1
        /\ flood_level_df.cols[1] = "#Day"
        /\ Len(flood_level_df.cell) = Len(registry) + 1
        /\ Len(flood_level_df.cell[1]) = n
        /\ \A r \in 1..n : flood_level_df.cell[1][r] = FFromInt(r - 1)
        /\ \A k \in 1..Len(registry) :
             /\ flood_level_df.cols[k + 1] = JoinChars(registry[k])
             /\ Len(flood_level_df.cell[k + 1]) = n
             /\ \A r \in 1..n :
                  FTrunc(flood_level_df.cell[k + 1][r])
                    \in {0, NonNegative(BaseLevel(r) - 2),
                         NonNegative(BaseLevel(r) - 1), BaseLevel(r)}

\* a table of two days, classified 3 and then 0, for a registry of three
\* locations: the other location's column is 3 and then 0
C23_Witness ==
  /\ FloodLevelDone
  /\ df_arg.nrows = 2
  /\ BaseLevel(1) = 3
  /\ BaseLevel(2) = 0
  /\ Len(Registry) = 3
  /\ \E k \in 1..3 :
       /\ Category(Registry[k]) = "other"
       /\ flood_level_df.cell[k + 1] = <<FFromInt(3), FFromInt(0)>>
  /\ flood_level_df.cell[1] = <<FFromInt(0), FFromInt(1)>>

\* ------------------------------------------------------------------------
\* Properties of create_edges_gdf
\* ------------------------------------------------------------------------
Known(name) == name \in DOMAIN location_dict

\* the indices of the route rows with both endpoints in the registry
KeptRows ==
  {k \in 1..Len(edges_df) :
     Known(edges_df[k].location_1) /\ Known(edges_df[k].location_2)}

\* the line of route row k in the result, projected from the registry's
\* points of its two endpoints
LineOfRow(k) ==
  [crs |-> "EPSG:3857",
   of |-> <<location_dict[edges_df[k].location_1],
            location_dict[edges_df[k].location_2]>>]

\* C12: create_edges_gdf never raises on an unknown location: the result
\* holds exactly one line per route row whose location_1 and location_2 are
\* both registry names, in route-table order, and every other row is dropped.
C12_EdgesOfKnownEndpoints ==
  /\ edges_pc # "error"
  /\ edges_pc = "done" =>
       /\ Len(edges_gdf.geometry) = Cardinality(KeptRows)
       /\ \A k \in KeptRows :
            edges_gdf.geometry[Cardinality({j \in KeptRows : j <= k})]
              = LineOfRow(k)

\* a finished call that kept two different lines and dropped a row with an
\* unknown endpoint
C12_Witness ==
  /\ edges_pc = "done"
  /\ Len(edges_gdf.geometry) = 2
  /\ edges_gdf.geometry[1] # edges_gdf.geometry[2]
  /\ Cardinality(KeptRows) < Len(edges_df)

\* ------------------------------------------------------------------------
\* Properties of create_location_file
\* ------------------------------------------------------------------------
\* text is base followed by "_" and one or more digits
IsNumbered(text, base) ==
  /\ Len(text) > Len(base) + 1
  /\ SubSeq(text, 1, Len(base)) = base
  /\ text[Len(base) + 1] = "_"
  /\ \A j \in (Len(base) + 2)..Len(text) : IsDigit(text[j])

HasNumericSuffix(text) ==
  \E k \in 0..Len(text) : IsNumbered(text, SubSeq(text, 1, k))

\* C13: create_location_file gives every location the location_type of its
\* name lower-cased with the trailing "_<digits>" suffix stripped, the
\* lower-cased name itself when it has no such suffix, and returns the rows
\* of its input sorted by "#name".
C13_TypeIsStrippedLowerName ==
  loc_pc = "done" =>
    /\ Len(location_file) = Len(location_df)
    /\ \A k \in 1..Len(location_df) : \E j \in 1..Len(location_file) :
         /\ location_file[j].name = location_df[k].name
         /\ location_file[j].latitude = location_df[k].latitude
         /\ location_file[j].longitude = location_df[k].longitude
    /\ \A j \in 1..Len(location_file) :
         LET low == Lower(location_file[j].name)
         IN  IF HasNumericSuffix(low)
             THEN IsNumbered(low, location_file[j].location_type)
             ELSE location_file[j].location_type = low
    /\ \A j \in 1..(Len(location_file) - 1) :
         ~StrLess(location_file[j + 1].name, location_file[j].name)

\* Town, Flood_zone_12, Camp_3 come back as Camp_3, Flood_zone_12, Town with
\* the types camp, flood_zone, town
C13_Witness ==
  /\ loc_pc = "done"
  /\ [k \in 1..Len(location_df) |-> location_df[k].name]
       = <<Town, Flood_zone_12, Camp_3>>
  /\ [k \in 1..Len(location_file) |-> location_file[k].name]
       = <<Camp_3, Flood_zone_12, Town>>
  /\ [k \in 1..Len(location_file) |-> location_file[k].location_type]
       = <<camp, flood_zone, town>>

\* ------------------------------------------------------------------------
\* Properties of generate_download_tasks
\* ------------------------------------------------------------------------
\* the number of dates start_date, start_date + 1 day, ... up to end_date
NumberOfDays ==
  IF ~DateLeq(start_date, end_date) THEN 0
  ELSE end_date.ordinal - start_date.ordinal
         + (IF start_date.hour <= end_date.hour THEN 1 ELSE 0)

\* the task of the d-th date after start_date, the p-th page and the f-th
\* template
TaskOf(d, p, f) ==
  LET date_str == Strftime(DateTime(start_date.ordinal + d, 0))
  IN  <<Format(url_formats[f], date_str, pages[p]),
        Filename(date_str, pages[p])>>

\* C14: generate_download_tasks always terminates, and returns one task per
\* date from start_date to end_date inclusive, page and URL template:
\* (number of days) * |pages| * |url_formats| tasks ordered by date, then
\* page, then template, and none when start_date > end_date.
C14_TasksAreCartesian ==
  /\ <>(task_pc = "done")
  /\ [](task_pc = "done" =>
          /\ Len(tasks) = NumberOfDays * Len(pages) * Len(url_formats)
          /\ \A d \in 0..(NumberOfDays - 1) : \A p \in 1..Len(pages) :
               \A f \in 1..Len(url_formats) :
                 tasks[(d * Len(pages) + (p - 1)) * Len(url_formats) + f]
                   = TaskOf(d, p, f))

\* 29 September to 1 October 2024, pages 2 and 1, the three templates: 18
\* tasks, the last one page 1 of 1-10-2024 from the third template
C14_Witness ==
  /\ task_pc = "done"
  /\ pages = <<2, 1>>
  /\ Len(tasks) = 18
  /\ tasks[1][2] = "Waterlevel_Forecast_29-9-2024_Page_2.png"
  /\ tasks[18] = <<"https://www.moezala.gov.mm/sites/default/files/Daily%20Waterlevel%20Forecast(1-10-2024)-E_Page_1.jpg",
                  "Waterlevel_Forecast_1-10-2024_Page_1.png">>

\* ------------------------------------------------------------------------
\* Properties of download_images
\* ------------------------------------------------------------------------
BatchEnded == task_pc \in {"done", "raised"}

JobIds == 1..Len(jobs)

\* C15: whatever the outcome of a task, its failure (a failed status or a
\* failed fetch) is logged, the batch is not aborted, no task issues its GET
\* more than once, and when download_images ends every task of the batch
\* has issued its GET exactly once.
C15_EveryTaskAttemptedOnce ==
  /\ \A t \in JobIds :
       jobs[t].st \in {"failed", "raised"} => jobs[t].printed # <<>>
  /\ ~aborted
  /\ \A t \in JobIds : jobs[t].gets <= 1
  /\ BatchEnded => \A t \in JobIds : jobs[t].gets = 1

\* the chunks of the response to task t, in order
Response(t) == [k \in 1..jobs[t].length |-> <<t, k>>]

\* C16: no two tasks of a batch open the same file for writing, and once
\* the batch has returned every file written holds exactly the response of
\* one task.
C16_OneTaskPerFile ==
  \A f \in DOMAIN disk :
    /\ Cardinality(disk[f].openers) <= 1
    /\ (task_pc = "done" /\ disk[f].openers # {})
         => \E t \in disk[f].openers : disk[f].content = Response(t)

\* a step of task t whose response status is not 200
StepOfFailedTask(t) ==
  /\ t \in DOMAIN jobs
  /\ t \in DOMAIN jobs'
  /\ jobs'[t] # jobs[t]
  /\ jobs'[t].status # 200

\* C19: no step of a task whose response status is not 200 creates or
\* changes a file, and every task that opened a file for writing had the
\* response status 200.
C19_OnlyStatus200Writes ==
  /\ [][\A t \in 1..Len(jobs) : StepOfFailedTask(t) => disk' = disk]_vars
  /\ [](\A f \in DOMAIN disk : \A t \in disk[f].openers :
          jobs[t].status = 200)

\* the batch has returned over the file of an earlier batch: a task
\* answered 404 has reported its failure without opening the file, and the
\* file holds the response of the one task answered 200
C19_Witness ==
  /\ task_pc = "done"
  /\ \E t \in JobIds :
       /\ jobs[t].st = "failed"
       /\ jobs[t].status = 404
       /\ t \notin disk[tasks[t][2]].openers
  /\ \E u \in JobIds :
       /\ jobs[u].st = "ok"
       /\ jobs[u].length > BufferChunks
       /\ disk[tasks[u][2]].openers = {u}
       /\ disk[tasks[u][2]].content = Response(u)
  /\ \E f \in DOMAIN disk : disk[f] = StaleImage

\* ------------------------------------------------------------------------
\* Properties of copy_settings
\* ------------------------------------------------------------------------
\* the configuration directory, without its closing "/"
ConfigParts == SubSeq(PATH_list, 1, Len(PATH_list) - 1)

\* "<config>_copy<n>/"
ConfigCopy(n) ==
  OsPath(ConfigParts, Join(ConfigParts) \o "_copy" \o ToString(n) \o "/")

\* C24: starting with the configuration directory and no copy, after k
\* calls of copy_settings exactly the copies "<config>_copy1/" ..
\* "<config>_copy<k>/" exist beside the configuration directory, each
\* holding the settings, and the configuration directory is unchanged.
C24_CopiesOneToK ==
  (/\ copy_pc = "ready"
   /\ copy_err = ""
   /\ Len(PATH_list) >= 2
   /\ Exists(OriginalDir(PATH_list))
   /\ \A n \in (copy_calls + 1)..(MaxOld + MaxCopies) :
        ~Exists(CopyDir(PATH_list, n)))
  => /\ tree[OriginalDir(PATH_list)] = "settings"
     /\ \A n \in 1..(MaxOld + MaxCopies) :
          IF n <= copy_calls
          THEN Exists(ConfigCopy(n)) /\ tree[ConfigCopy(n)] = "settings"
          ELSE ~Exists(ConfigCopy(n))

\* ------------------------------------------------------------------------
\* Properties of classify_water_level
\* ------------------------------------------------------------------------
\* C25: with min_level < max_level and x >= 0, the class returned is 0 for
\* a level below min_level; for a level from min_level to max_level it is
\* in 0..x, is 0 at min_level and x at max_level, and is not below the
\* class of the level one lower.
C25_ClassesRiseFromZeroToX ==
  (class_pc = "done" /\ min_level < max_level /\ x_arg >= 0) =>
    /\ level_arg < min_level => water_class = 0
    /\ (min_level <= level_arg /\ level_arg <= max_level) =>
         /\ water_class \in 0..x_arg
         /\ level_arg = min_level => water_class = 0
         /\ level_arg = max_level => water_class = x_arg
         /\ level_arg > min_level =>
              water_class >= classify_water_level(level_arg - 1, min_level,
                                                  max_level, x_arg)

\* level 1 of 0..2 with five classes: 0.5 * 5 = 2.5, class 2
C25_Witness ==
  /\ class_pc = "done"
  /\ min_level = 0
  /\ max_level = 2
  /\ level_arg = 1
  /\ x_arg = 5
  /\ water_class = 2

====
